---- MODULE Spec2Model ----
(***************************************************************************)
(* Verification model of the order service (Aksenov-sas/order_service).    *)
(*                                                                         *)
(* Part 1: the ingestion consumer (internal/kafka/consumer.go) and the     *)
(* dead-letter publisher (DLQProducer.SendToDLQ).                          *)
(*                                                                         *)
(* Message bodies are sequences of JSON tokens.  The tokens are the two    *)
(* braces, one insignificant white-space byte, and three kinds of object   *)
(* content: "ok" (the members of an order that passes Order.Validate),     *)
(* "inv" (well-typed members of an order that fails Order.Validate) and    *)
(* "typ" (a member whose JSON type does not fit the Go field, e.g.         *)
(* "sm_id":"x").                                                           *)
(*                                                                         *)
(* The variable log is a history of the calls Consume made; the program    *)
(* does not read it.  The field ok of an entry tells whether the call      *)
(* returned without error (a commit's result is kept in commitFailed).     *)
(*                                                                         *)
(* Part 2: the order service (internal/service/service.go) over the        *)
(* Postgres store (internal/database/postgres.go), the TTL cache and the   *)
(* retry executor.  SvcSpec runs WarmUpCache, then one goroutine calling   *)
(* ProcessOrder and one calling GetOrder.  A transaction attempt is one    *)
(* step: other connections see its rows only once it has committed.  The   *)
(* store is either down for a whole run (every operation fails) or fails   *)
(* at most MaxFaults operations.  Retry waits are counted in milliseconds  *)
(* of their shortest delay (po.elapsed, gr.elapsed): a timer can fire      *)
(* only while that sum is below the deadline of the call.  hist is a       *)
(* history the program does not read.                                      *)
(*                                                                         *)
(* Part 3: the TTL cache and the retry executor called on their own.       *)
(* CacheSpec runs two goroutines that call the cache's methods; each call  *)
(* takes the lock, runs its body and releases the lock in separate steps,  *)
(* and LoadFromSlice stores one element per step.  RetrySpec runs one call *)
(* of DoWithContext with an operation that fails a given number of times   *)
(* and a context the caller may cancel at any point; rand.Int63n panics   *)
(* on an argument that is not positive, which ends the call in "panic".    *)
(*                                                                         *)
(* Part 4: ValidateSpec applies Order.Validate to the valid order of the   *)
(* tests with up to MaxEdits fields changed.  LifeSpec runs the eviction   *)
(* goroutine, its ticker and the calls of Service.Close over the warmed    *)
(* cache.  LockSpec runs the paths of the service's methods as sequences   *)
(* of lock operations and suspensions on the statistics lock and the       *)
(* cache lock.  MainSpec runs the startup sequence of main.                *)
(***************************************************************************)
EXTENDS Integers, Sequences, FiniteSets, TLC

VARIABLES
    dlq,            \* Consumer.dlq # nil
    maxRetry,       \* Consumer.maxRetry
    ctxDone,        \* the ctx passed to Consume is cancelled
    pc,             \* position of Consume
    msg,            \* the message of the current iteration
    order,          \* the decoded order of the current iteration
    err,            \* the error of the current iteration's failure branch
    ret,            \* value returned by Consume
    readerClosedBy, \* the callers of reader.Close so far
    dlqTopic,       \* records written to the dead-letter topic
    commitFailed,   \* the latest CommitMessages call returned an error
    log,            \* history of calls
    store,          \* committed rows of the Postgres tables
    cache,          \* Cache.data: order_uid -> CachedOrderItem
    now,            \* time.Now(), in cache ticks
    boot,           \* the startup call of Service.WarmUpCache
    po,             \* the consumer goroutine's call of Service.ProcessOrder
    gr,             \* a handler goroutine's call of Service.GetOrder
    hist,           \* history of the store's answers and of the calls made
    mu,             \* Cache.mu: the holders of the write and the read lock
    th,             \* goroutines calling the cache's methods directly
    rt,             \* a call of retry.DoWithContext
    vd,             \* a call of Order.Validate
    lk,             \* Service.mu and Cache.mu as the service's methods use them
    lc,             \* the eviction goroutine and the calls of Service.Close
    mn              \* the startup sequence of main

kafkaVars == <<dlq, maxRetry, ctxDone, pc, msg, order, err, ret, readerClosedBy,
               dlqTopic, commitFailed, log>>

svcVars == <<store, cache, now, boot, po, gr, hist>>

\* the cache and the retry executor called on their own
libVars == <<mu, th, rt>>

\* the validator, the two locks, the service's life cycle and main, each
\* on its own
extVars == <<vd, lk, lc, mn>>

vars == <<kafkaVars, svcVars, libVars, extVars>>

----------------------------------------------------------------------------
(* Bounds *)

\* number of messages the broker delivers in one run
MaxMsgs == 2

\* number of calls of ProcessOrder and GetOrder in one run
MaxCalls == 2

\* number of store operations that fail in a run without an outage
MaxFaults == 1

\* the last cache tick of a run
MaxTime == 2

\* number of calls the goroutines make on the cache directly
MaxOps == 3

\* the largest attempt bound DoWithContext is called with
MaxAttempts == 3

\* number of fields a test changes in the valid order before Validate
MaxEdits == 2

\* number of ticks of the cleanup ticker and of calls of Service.Close
MaxTicks == 3
MaxCloses == 2

\* number of calls of the service's methods the goroutines make
MaxRuns == 3

----------------------------------------------------------------------------
(* Message bodies and encoding/json *)

Topic == "orders"

NoMsg == [offset |-> 0, key |-> 0, value |-> <<>>]
NoOrder == [fields |-> "none"]
NoErr == "nil"

Members == {"ok", "inv", "typ"}

\* the bodies the broker may deliver: a valid order, the same with
\* white space, an order failing validation, a type mismatch, and a
\* truncated object (the shape of {"not":"valid" )
Payloads ==
    { <<"{", "ok", "}">>,
      <<"{", " ", "ok", "}">>,
      <<"{", "inv", "}">>,
      <<"{", "typ", "}">>,
      <<"{", "inv">> }

\* values SetMaxRetry is called with
MaxRetryValues == {5}

IsSpace(t) == t = " "

\* encoding/json compact: drops insignificant white space
Compact(p) == SelectSeq(p, LAMBDA t : ~IsSpace(t))

\* encoding/json checkValid: the body is one complete JSON object
JSONValid(p) ==
    LET c == Compact(p)
    IN  \/ c = <<"{", "}">>
        \/ Len(c) = 3 /\ c[1] = "{" /\ c[2] \in Members /\ c[3] = "}"

\* json.Unmarshal(msg.Value, &order)
Unmarshal(p) ==
    IF ~JSONValid(p)
    THEN [err |-> "syntax", order |-> NoOrder]
    ELSE LET c == Compact(p)
             m == IF Len(c) = 3 THEN c[2] ELSE "none"
         IN  IF m = "typ"
             THEN [err |-> "type", order |-> NoOrder]
             ELSE [err |-> NoErr, order |-> [fields |-> m]]

\* Order.Validate
Validate(o) == IF o.fields = "ok" THEN NoErr ELSE "validation"

\* json.Marshal(dlqMsg): OriginalMessage is a json.RawMessage, whose
\* bytes the encoder checks and compacts; a body that is not valid JSON
\* makes Marshal fail
MarshalDLQ(rec) ==
    IF JSONValid(rec.original_message)
    THEN [err |-> NoErr,
          json |-> [rec EXCEPT !.original_message = Compact(@)]]
    ELSE [err |-> "marshal", json |-> rec]

\* the DLQMessage built by SendToDLQ
DLQMessage(originalMsg, e, attempts) ==
    [original_message |-> originalMsg.value,
     error |-> e,
     topic |-> originalMsg.topic,
     key |-> originalMsg.key,
     attempts |-> attempts]

----------------------------------------------------------------------------
(* History *)

Event(op, off, ok, val) == [op |-> op, off |-> off, ok |-> ok, val |-> val]

Log(e) == log' = Append(log, e)

Idx(op, off) == {i \in DOMAIN log : log[i].op = op /\ log[i].off = off}
Count(op, off) == Cardinality(Idx(op, off))
NFetched == Cardinality({i \in DOMAIN log : log[i].op = "fetch"})

----------------------------------------------------------------------------
(* Orders and the Postgres tables *)

OrderUIDs == {"a", "b"}

\* a models.Order: hdr, delivery and payment stand for the column values
\* of its order, delivery and payment parts, items for its Items slice
Aggregate(uid, val, items) ==
    [uid |-> uid, hdr |-> val, delivery |-> val, payment |-> val,
     items |-> items]

NoAggregate == Aggregate("", 0, <<>>)

\* the orders the broker delivers to ProcessOrder
Orders ==
    {Aggregate("a", 1, <<1, 2>>), Aggregate("a", 2, <<2>>),
     Aggregate("b", 1, <<1, 2>>)}

Row(uid, val) == [uid |-> uid, val |-> val]

\* orders, delivery and payment hold rows keyed by order_uid; the items
\* rows of one order_uid are kept in the order of their serial id
EmptyStore ==
    [orders |-> {}, delivery |-> {}, payment |-> {},
     items |-> [u \in OrderUIDs |-> <<>>]]

\* INSERT ... ON CONFLICT (order_uid) DO UPDATE SET ...
Upsert(table, row) == {r \in table : r.uid # row.uid} \cup {row}

\* the statements of one SaveOrder transaction, in program order
TxSteps ==
    <<"begin", "order", "delivery", "payment", "delete", "item", "commit">>

\* mutant: the old items are not deleted before the new ones are inserted
Exec_NoDelete(s, o, step) ==
    CASE step = "order" ->
            [s EXCEPT !.orders = Upsert(@, Row(o.uid, o.hdr))]
      [] step = "delivery" ->
            [s EXCEPT !.delivery = Upsert(@, Row(o.uid, o.delivery))]
      [] step = "payment" ->
            [s EXCEPT !.payment = Upsert(@, Row(o.uid, o.payment))]
      [] step = "item" -> [s EXCEPT !.items[o.uid] = @ \o o.items]
      [] OTHER -> s

\* tx.Exec of SaveOrderQuery, SaveDeliveryQuery, SavePaymentQuery,
\* DeleteItemsQuery and the loop of SaveItemQuery
Exec(s, o, step) ==
    CASE step = "order" ->
            [s EXCEPT !.orders = Upsert(@, Row(o.uid, o.hdr))]
      [] step = "delivery" ->
            [s EXCEPT !.delivery = Upsert(@, Row(o.uid, o.delivery))]
      [] step = "payment" ->
            [s EXCEPT !.payment = Upsert(@, Row(o.uid, o.payment))]
      [] step = "delete" -> [s EXCEPT !.items[o.uid] = <<>>]
      [] step = "item" -> [s EXCEPT !.items[o.uid] = @ \o o.items]
      [] OTHER -> s

\* the rows the transaction sees after its first k statements
RECURSIVE RunSteps(_, _, _)
RunSteps(s, o, k) ==
    IF k = 0 THEN s ELSE Exec(RunSteps(s, o, k - 1), o, TxSteps[k])

StepIndex(step) == CHOOSE i \in DOMAIN TxSteps : TxSteps[i] = step

\* the errors of a transaction attempt, named after the failing statement
TxErrors == {TxSteps[i] : i \in DOMAIN TxSteps}

\* where one transaction attempt fails; "none" is a successful attempt
Failures == TxErrors \cup {"none"}

\* mutant: the deferred function does not roll back
Rollback_Keep(before, work) == work

\* tx.Rollback(ctx) in the deferred function: the rows are as they were
\* when the transaction began
Rollback(before, work) == before

\* one run of the function SaveOrder hands to the retry executor
Attempt(s, o, failAt) ==
    IF failAt = "none"
    THEN [store |-> RunSteps(s, o, Len(TxSteps)), err |-> NoErr]
    ELSE [store |-> Rollback(s, RunSteps(s, o, StepIndex(failAt) - 1)),
          err |-> failAt]

\* GetOrderByUIDQuery: the join of the three keyed tables on order_uid
Joined(s, uid) ==
    {j \in s.orders \X s.delivery \X s.payment :
        j[1].uid = uid /\ j[2].uid = uid /\ j[3].uid = uid}

InStore(s, uid) == Joined(s, uid) # {}

\* row.Scan into tempOrder: the first row of the join
Header(s, uid) ==
    LET j == CHOOSE j \in Joined(s, uid) : TRUE
    IN  [uid |-> uid, hdr |-> j[1].val, delivery |-> j[2].val,
         payment |-> j[3].val, items |-> <<>>]

\* GetItemsByOrderUIDQuery: ... WHERE order_uid = $1 ORDER BY id
GetItemsByOrderUID(s, uid) == s.items[uid]

\* the aggregate the store holds for uid
Stored(s, uid) == [Header(s, uid) EXCEPT !.items = GetItemsByOrderUID(s, uid)]

Committed(s, o) == Attempt(s, o, "none").store

\* the tables a starting process may find
InitialStores ==
    {EmptyStore,
     Committed(EmptyStore, Aggregate("a", 1, <<1, 2>>)),
     Committed(Committed(EmptyStore, Aggregate("a", 1, <<1, 2>>)),
               Aggregate("b", 1, <<1, 2>>))}

----------------------------------------------------------------------------
(* The TTL cache *)

\* cache.New(30 * time.Minute): the time to live, in cache ticks
TTL == 1

NoCache == [u \in {} |-> NoAggregate]

\* mutant: an item never expires
Expired_Never(item, t) == FALSE

\* time.Now().After(item.expireTime)
Expired(item, t) == t > item.expireTime

\* mutant: an entry that is already there is kept
CacheSet_KeepExisting(c, o, t) ==
    [u \in DOMAIN c \cup {o.uid} |->
        IF u \in DOMAIN c THEN c[u] ELSE [order |-> o, expireTime |-> t + TTL]]

\* Cache.Set
CacheSet(c, o, t) ==
    [u \in DOMAIN c \cup {o.uid} |->
        IF u = o.uid THEN [order |-> o, expireTime |-> t + TTL] ELSE c[u]]

\* Cache.Get: an expired item is reported as absent
CacheGet(c, uid, t) ==
    IF uid \notin DOMAIN c \/ Expired(c[uid], t)
    THEN [order |-> NoAggregate, exists |-> FALSE]
    ELSE [order |-> c[uid].order, exists |-> TRUE]

\* mutant: only the first order of the slice is loaded
LoadFromSlice_First(c, orders, t) ==
    IF orders = <<>> THEN c ELSE CacheSet(c, Head(orders), t)

\* Cache.LoadFromSlice
RECURSIVE LoadFromSlice(_, _, _)
LoadFromSlice(c, orders, t) ==
    IF orders = <<>>
    THEN c
    ELSE LoadFromSlice(CacheSet(c, Head(orders), t), Tail(orders), t)

\* mutant: Size is the length of the map
Size_CountAll(c, t) == Cardinality(DOMAIN c)

\* Cache.Size: the items that have not expired
Size(c, t) == Cardinality({u \in DOMAIN c : ~Expired(c[u], t)})

\* the orders in which a range over a map with the keys S may visit them
Slices(S) ==
    {k \in [1 .. Cardinality(S) -> S] : {k[i] : i \in DOMAIN k} = S}

\* Cache.GetAll: the slices it may return, one per iteration order
GetAll(c, t) ==
    {[i \in DOMAIN k |-> c[k[i]].order] :
        k \in Slices({u \in DOMAIN c : ~Expired(c[u], t)})}

\* mutant: Cleanup empties the map
CacheCleanup_All(c, t) == [u \in {} |-> c[u]]

\* Cache.Cleanup
CacheCleanup(c, t) == [u \in {v \in DOMAIN c : ~Expired(c[v], t)} |-> c[u]]

----------------------------------------------------------------------------
(* The retry executor: delays in milliseconds *)

HeavyPolicy ==
    [MaxAttempts |-> 5, InitialBackoff |-> 200, MaxBackoff |-> 30000,
     FactorNum |-> 5, FactorDen |-> 2]

DefaultPolicy ==
    [MaxAttempts |-> 3, InitialBackoff |-> 100, MaxBackoff |-> 10000,
     FactorNum |-> 2, FactorDen |-> 1]

\* backoff after the given number of failed attempts:
\* backoff = time.Duration(float64(backoff) * policy.BackoffFactor)
RECURSIVE Backoff(_, _)
Backoff(policy, attempt) ==
    IF attempt = 0
    THEN policy.InitialBackoff
    ELSE (Backoff(policy, attempt - 1) * policy.FactorNum)
            \div policy.FactorDen

\* the shortest delay of the wait after a failed attempt: the jitter adds
\* to the backoff, the sum is cut at MaxBackoff
MinDelay(policy, attempt) ==
    IF Backoff(policy, attempt) > policy.MaxBackoff
    THEN policy.MaxBackoff
    ELSE Backoff(policy, attempt)

\* context.WithTimeout(context.Background(), 10*time.Second)
ProcessTimeout == 10000

\* context.WithTimeout(context.Background(), 5*time.Second)
GetTimeout == 5000

\* what DoWithContext returns when it finds the context done
CtxReturn(lastErr) == IF lastErr # NoErr THEN lastErr ELSE "ctx"

----------------------------------------------------------------------------
(* Construction *)

NewConsumer == [dlq |-> FALSE, maxRetry |-> 3]
NewConsumerWithDLQ == [dlq |-> TRUE, maxRetry |-> 3]

\* service.New(db): no call has been made
BootIdle == [pc |-> "idle", ret |-> "none"]

PoIdle ==
    [pc |-> "idle", order |-> NoAggregate, outer |-> 0, inner |-> 0,
     oerr |-> NoErr, ierr |-> NoErr, ret |-> "none", done |-> FALSE,
     elapsed |-> 0, runs |-> 0, saved |-> FALSE, sets |-> 0]

GrIdle ==
    [pc |-> "idle", uid |-> "", attempt |-> 0, lastErr |-> NoErr,
     temp |-> NoAggregate, order |-> NoAggregate, ret |-> "none",
     hit |-> FALSE, done |-> FALSE, elapsed |-> 0, reads |-> 0,
     sets |-> 0]

\* ProcessOrder returns e: the locals of its retry loops are gone
PoReturn(f, e) ==
    [PoIdle EXCEPT !.pc = "done", !.order = f.order, !.oerr = f.oerr,
                   !.ret = e, !.done = f.done, !.runs = f.runs,
                   !.saved = f.saved, !.sets = f.sets]

\* GetOrder returns (o, e): the locals of its retry loop are gone
GrReturn(f, o, e) ==
    [GrIdle EXCEPT !.pc = "done", !.uid = f.uid, !.order = o, !.ret = e,
                   !.hit = f.hit, !.done = f.done, !.reads = f.reads,
                   !.sets = f.sets]

\* the aggregates the tables hold
StoredIn(s) == {Stored(s, u) : u \in {v \in OrderUIDs : InStore(s, v)}}

NoHist ==
    [calls |-> 0, faults |-> 0, down |-> FALSE, accepted |-> {},
     seq |-> "none"]

\* the goroutines that call the cache's methods directly
Threads == {"t1", "t2"}

\* sync.RWMutex: unlocked
MuFree == [writer |-> "none", readers |-> {}]

NoRes == [order |-> NoAggregate, exists |-> FALSE, all |-> <<>>, size |-> 0]

\* a goroutine that is in no method of the cache
ThIdle ==
    [pc |-> "idle", op |-> "none", arg |-> <<>>, uid |-> "", at |-> 0,
     res |-> NoRes, calls |-> 0]

\* the errors the operation returns, by the number of the invocation
Errs == <<"e1", "e2", "e3", "e4", "e5">>

\* no call of DoWithContext has been made
RtIdle ==
    [pc |-> "idle", n |-> 0, max |-> 0, jitter |-> FALSE, fails |-> 0,
     d0 |-> 0, attempt |-> 0, backoff |-> 0, j |-> 0, delay |-> 0,
     lastErr |-> NoErr,
     ret |-> "none", calls |-> 0, waits |-> 0, cancelled |-> FALSE,
     cancelledAt |-> "none"]

(* Order.Validate: validate.Struct(o) over the validation tags.  A string
   is the sequence of the classes of its characters: "a" an ASCII letter
   or digit, " " white space, "@" the at sign, "-" any other character.
   The fields without a tag (InternalSignature, DateCreated, RequestID,
   Sale, Status) are left out. *)

\* the order of TestOrder_Validate/ValidOrder
ValidOrder ==
    [OrderUID |-> [i \in 1 .. 32 |-> "a"],
     TrackNumber |-> <<"a">>, Entry |-> <<"a">>, Locale |-> <<"a">>,
     CustomerID |-> <<"a">>, DeliveryService |-> <<"a">>,
     ShardKey |-> <<"a">>, SMID |-> 1, OOFShard |-> <<"a">>,
     Delivery |->
        [Name |-> <<"a">>, Phone |-> <<"a">>, Zip |-> <<"a">>,
         City |-> <<"a">>, Address |-> <<"a">>, Region |-> <<"a">>,
         Email |-> <<"a", "@", "a">>],
     Payment |->
        [Transaction |-> <<"a">>, Currency |-> <<"a">>,
         Provider |-> <<"a">>, Bank |-> <<"a">>, Amount |-> 1,
         PaymentDT |-> 1, DeliveryCost |-> 1, GoodsTotal |-> 1,
         CustomFee |-> 0],
     Items |->
        <<[ChrtID |-> 1, TrackNumber |-> <<"a">>, Price |-> 1,
           RID |-> <<"a">>, Name |-> <<"a">>, Size |-> <<"a">>,
           TotalPrice |-> 1, NMID |-> 1, Brand |-> <<"a">>]>>]

\* the fields of each struct by validation tag: `required` alone on a
\* string, `min=0`, `gt=0`
Tags ==
    [Order |->
        {"TrackNumber", "Entry", "Locale", "CustomerID", "DeliveryService",
         "ShardKey", "OOFShard"},
     Delivery |-> {"Name", "Phone", "Zip", "City", "Address", "Region"},
     Payment |-> {"Transaction", "Currency", "Provider", "Bank"},
     PaymentMin0 |-> {"Amount", "DeliveryCost", "GoodsTotal", "CustomFee"},
     Item |-> {"TrackNumber", "RID", "Name", "Size", "Brand"},
     ItemMin0 |-> {"Price", "TotalPrice"},
     ItemGt0 |-> {"ChrtID", "NMID"}]

\* the tag `required` on a string: the field is not the zero value ""
Required(s) == s # <<>>

\* the tag `alphanum`: ^[a-zA-Z0-9]+$
Alphanum(s) == s # <<>> /\ \A i \in DOMAIN s : s[i] = "a"

\* the tag `email`, reduced to: one at sign between two runs of letters
\* and digits
Email(s) ==
    \E i \in 2 .. Len(s) - 1 :
        /\ s[i] = "@"
        /\ \A k \in DOMAIN s \ {i} : s[k] = "a"

\* validate.Struct(o), field by field; it dives into Delivery, Payment
\* and each Item
ValidateStruct(o) ==
    LET ItemValid(it) ==
            /\ \A f \in Tags.Item : Required(it[f])
            /\ \A f \in Tags.ItemMin0 : it[f] >= 0
            /\ \A f \in Tags.ItemGt0 : it[f] > 0
        PaymentValid(p) ==
            /\ \A f \in Tags.Payment : Required(p[f])
            /\ \A f \in Tags.PaymentMin0 : p[f] >= 0
            /\ p.PaymentDT > 0
        DeliveryValid(d) ==
            /\ \A f \in Tags.Delivery : Required(d[f])
            /\ Required(d.Email) /\ Email(d.Email)
    IN  IF /\ Required(o.OrderUID) /\ Alphanum(o.OrderUID)
           /\ Len(o.OrderUID) = 32
           /\ \A f \in Tags.Order : Required(o[f])
           /\ o.SMID # 0 /\ o.SMID > 0
           /\ DeliveryValid(o.Delivery)
           /\ PaymentValid(o.Payment)
           /\ Len(o.Items) >= 1
           /\ \A i \in DOMAIN o.Items : ItemValid(o.Items[i])
        THEN "ok"
        ELSE "error"

\* the orders one change of a field away from o, which is what the
\* modifyOrder functions of the tests make: a string becomes empty, white
\* space or text, a number -1, 0 or 1, the identifier empty, 32 blanks,
\* 31 letters or 32 characters with a dash, the item list empty or one or
\* two items of which one has one field changed
Modified(o) ==
    LET Strings == {<<>>, <<" ">>, <<"a">>}
        Numbers == {-1, 0, 1}
        UIDs ==
            {<<>>, [i \in 1 .. 32 |-> " "], [i \in 1 .. 31 |-> "a"],
             [i \in 1 .. 32 |-> IF i = 1 THEN "-" ELSE "a"],
             ValidOrder.OrderUID}
        Emails == Strings \cup {<<"a", "@", "a">>}
        Item == ValidOrder.Items[1]
        Items ==
            {Item}
              \cup {[Item EXCEPT ![f] = v] : f \in Tags.Item, v \in Strings}
              \cup {[Item EXCEPT ![f] = v] :
                       f \in Tags.ItemMin0 \cup Tags.ItemGt0, v \in Numbers}
        ItemLists ==
            {<<>>} \cup {<<it>> : it \in Items}
                   \cup {<<Item, it>> : it \in Items}
    IN  {[o EXCEPT !.OrderUID = v] : v \in UIDs}
          \cup {[o EXCEPT ![f] = v] : f \in Tags.Order, v \in Strings}
          \cup {[o EXCEPT !.SMID = v] : v \in Numbers}
          \cup {[o EXCEPT !.Delivery[f] = v] :
                   f \in Tags.Delivery, v \in Strings}
          \cup {[o EXCEPT !.Delivery.Email = v] : v \in Emails}
          \cup {[o EXCEPT !.Payment[f] = v] :
                   f \in Tags.Payment, v \in Strings}
          \cup {[o EXCEPT !.Payment[f] = v] :
                   f \in Tags.PaymentMin0 \cup {"PaymentDT"}, v \in Numbers}
          \cup {[o EXCEPT !.Items = v] : v \in ItemLists}

\* no call of Validate has been made on the order under test
VdIdle ==
    [o |-> ValidOrder, nil |-> FALSE, edits |-> 0, out |-> "none"]

\* the goroutines that call the service's methods
Tasks == {"g1", "g2", "g3"}

\* both locks are free and no goroutine is in a method; a lock has its
\* writer, its readers and the goroutines blocked in Lock, which keep new
\* readers out
LkIdle ==
    [s |-> [writer |-> "none", readers |-> {}, waiting |-> {}],
     c |-> [writer |-> "none", readers |-> {}, waiting |-> {}],
     prog |-> [t \in Tasks |-> <<>>], calls |-> 0]
\* the service right after service.New: the ticker runs, runCleanup waits
\* in its select, Close has not been called; `late` counts the calls of
\* cache.Cleanup begun after a call of Close returned
LcIdle ==
    [ticker |-> TRUE, tick |-> FALSE, stop |-> FALSE, db |-> "open",
     rc |-> "select", cl |-> "idle", calls |-> 0, closes |-> 0,
     ticks |-> 0, late |-> 0]
\* main after the configuration is loaded: nothing is connected and
\* nothing is started; `tries` counts the attempts of each retried step
MnIdle ==
    [pc |-> "connect", tries |-> [connect |-> 0, init |-> 0, warmup |-> 0],
     db |-> FALSE, inited |-> FALSE, warm |-> FALSE, consumer |-> FALSE,
     http |-> FALSE, fetched |-> 0, served |-> 0, why |-> "none"]

ExtIdle ==
    /\ vd = VdIdle
    /\ lk = LkIdle
    /\ lc = LcIdle
    /\ mn = MnIdle

LibIdle ==
    /\ mu = MuFree
    /\ th = [t \in Threads |-> ThIdle]
    /\ rt = RtIdle

\* the consumer before Consume is called
KafkaIdle ==
    /\ dlq = NewConsumer.dlq
    /\ maxRetry = NewConsumer.maxRetry
    /\ ctxDone = FALSE
    /\ pc = "new"
    /\ msg = NoMsg
    /\ order = NoOrder
    /\ err = NoErr
    /\ ret = "none"
    /\ readerClosedBy = {}
    /\ dlqTopic = <<>>
    /\ commitFailed = FALSE
    /\ log = <<>>

\* the service before any of its methods is called
SvcIdle ==
    /\ store = EmptyStore
    /\ cache = NoCache
    /\ now = 0
    /\ boot = BootIdle
    /\ po = PoIdle
    /\ gr = GrIdle
    /\ hist = NoHist

Init ==
    /\ \E c \in {NewConsumer, NewConsumerWithDLQ} :
          /\ dlq = c.dlq
          /\ maxRetry = c.maxRetry
    /\ ctxDone = FALSE
    /\ pc = "new"
    /\ msg = NoMsg
    /\ order = NoOrder
    /\ err = NoErr
    /\ ret = "none"
    /\ readerClosedBy = {}
    /\ dlqTopic = <<>>
    /\ commitFailed = FALSE
    /\ log = <<>>
    /\ SvcIdle
    /\ LibIdle
    /\ ExtIdle

\* the service is constructed over the tables an earlier run left; the
\* store is reachable, or it is down for the whole run
SvcInit ==
    /\ KafkaIdle
    /\ LibIdle
    /\ ExtIdle
    /\ store \in InitialStores
    /\ cache = NoCache
    /\ now = 0
    /\ boot = BootIdle
    /\ po = PoIdle
    /\ gr = GrIdle
    /\ \E down \in BOOLEAN :
          hist = [calls |-> 0, faults |-> MaxFaults, down |-> down,
                  accepted |-> StoredIn(store), seq |-> "none"]

----------------------------------------------------------------------------
(* Consumer.SetMaxRetry and the caller of Consume *)

SetMaxRetry(n) ==
    /\ pc = "new"
    /\ maxRetry' = n
    /\ UNCHANGED <<dlq, ctxDone, pc, msg, order, err, ret, readerClosedBy,
                   dlqTopic, commitFailed, log, svcVars, libVars, extVars>>

\* go kafkaConsumer.Consume(consumerCtx, svc.ProcessOrder)
Start ==
    /\ pc = "new"
    /\ pc' = "top"
    /\ UNCHANGED <<dlq, maxRetry, ctxDone, msg, order, err, ret,
                   readerClosedBy, dlqTopic, commitFailed, log, svcVars,
                   libVars, extVars>>

\* cancelConsumer(): the cancellation signal fires
Cancel ==
    /\ ~ctxDone
    /\ ctxDone' = TRUE
    /\ Log(Event("cancel", NFetched, TRUE, pc))
    /\ UNCHANGED <<dlq, maxRetry, pc, msg, order, err, ret, readerClosedBy,
                   dlqTopic, commitFailed, svcVars, libVars, extVars>>

----------------------------------------------------------------------------
(* Consumer.Consume *)

\* mutant: the failure branches never call the dead-letter publisher
FailureNext_NoDLQ == "commit"

\* mutant: the failure branches call the publisher without the nil check
FailureNext_AlwaysDLQ == "dlq"

\* the branch every failure takes: `if c.dlq != nil { SendToDLQ }`, then
\* CommitMessages
FailureNext == IF dlq THEN "dlq" ELSE "commit"

\* mutant: the loop does not look at ctx.Done() before fetching
LoopTop_IgnoreCancel ==
    /\ pc = "top"
    /\ pc' = "fetch"
    /\ UNCHANGED <<dlq, maxRetry, ctxDone, msg, order, err, ret,
                   readerClosedBy, dlqTopic, commitFailed, log, svcVars,
                   libVars, extVars>>

\* select { case <-ctx.Done(): return c.reader.Close(); default: ... }
\* (the reader's Close returns nil)
LoopTop ==
    /\ pc = "top"
    /\ IF ctxDone
       THEN /\ readerClosedBy' = readerClosedBy \cup {"Consume"}
            /\ ret' = "nil"
            /\ pc' = "returned"
       ELSE /\ pc' = "fetch"
            /\ UNCHANGED <<ret, readerClosedBy>>
    /\ UNCHANGED <<dlq, maxRetry, ctxDone, msg, order, err, dlqTopic,
                   commitFailed, log, svcVars, libVars, extVars>>

\* c.reader.FetchMessage(ctx) returns a message.  The reader selects
\* between ctx.Done() and its message channel, so a call entered before
\* the cancellation may still deliver a message after it.
FetchMessage ==
    /\ pc = "fetch"
    /\ NFetched < MaxMsgs
    /\ \E p \in Payloads :
          /\ msg' = [offset |-> NFetched + 1, key |-> NFetched + 1, value |-> p]
          /\ Log(Event("fetch", NFetched + 1, TRUE, p))
    /\ pc' = "decode"
    /\ UNCHANGED <<dlq, maxRetry, ctxDone, order, err, ret, readerClosedBy,
                   dlqTopic, commitFailed, svcVars, libVars, extVars>>

\* c.reader.FetchMessage(ctx) returns an error: return nil when the
\* context is done, otherwise log and continue
FetchError ==
    /\ pc = "fetch"
    /\ IF ctxDone
       THEN /\ ret' = "nil"
            /\ pc' = "returned"
       ELSE /\ pc' = "top"
            /\ UNCHANGED ret
    /\ UNCHANGED <<dlq, maxRetry, ctxDone, msg, order, err, readerClosedBy,
                   dlqTopic, commitFailed, log, svcVars, libVars, extVars>>

\* mutant: a decode failure makes Consume return the error
Decode_ReturnOnError ==
    /\ pc = "decode"
    /\ LET r == Unmarshal(msg.value)
       IN  /\ Log(Event("decode", msg.offset, r.err = NoErr, r.err))
           /\ IF r.err # NoErr
              THEN /\ err' = r.err
                   /\ ret' = "err"
                   /\ pc' = "returned"
                   /\ UNCHANGED order
              ELSE /\ order' = r.order
                   /\ pc' = "validate"
                   /\ UNCHANGED <<err, ret>>
    /\ UNCHANGED <<dlq, maxRetry, ctxDone, msg, readerClosedBy, dlqTopic,
                   commitFailed, svcVars, libVars, extVars>>

\* mutant: the decode error is logged and the order validated all the same
Decode_ValidateAnyway ==
    /\ pc = "decode"
    /\ LET r == Unmarshal(msg.value)
       IN  /\ Log(Event("decode", msg.offset, r.err = NoErr, r.err))
           /\ order' = r.order
           /\ pc' = "validate"
    /\ UNCHANGED <<dlq, maxRetry, ctxDone, msg, err, ret, readerClosedBy,
                   dlqTopic, commitFailed, svcVars, libVars, extVars>>

\* json.Unmarshal(msg.Value, &order) and its failure branch up to the DLQ
Decode ==
    /\ pc = "decode"
    /\ LET r == Unmarshal(msg.value)
       IN  /\ Log(Event("decode", msg.offset, r.err = NoErr, r.err))
           /\ IF r.err # NoErr
              THEN /\ err' = r.err
                   /\ pc' = FailureNext
                   /\ UNCHANGED order
              ELSE /\ order' = r.order
                   /\ pc' = "validate"
                   /\ UNCHANGED err
    /\ UNCHANGED <<dlq, maxRetry, ctxDone, msg, ret, readerClosedBy,
                   dlqTopic, commitFailed, svcVars, libVars, extVars>>

\* order.Validate() and its failure branch up to the DLQ
ValidateOrder ==
    /\ pc = "validate"
    /\ LET e == Validate(order)
       IN  /\ Log(Event("validate", msg.offset, e = NoErr, e))
           /\ IF e # NoErr
              THEN /\ err' = e
                   /\ pc' = FailureNext
              ELSE /\ pc' = "process"
                   /\ UNCHANGED err
    /\ UNCHANGED <<dlq, maxRetry, ctxDone, msg, order, ret, readerClosedBy,
                   dlqTopic, commitFailed, svcVars, libVars, extVars>>

\* mutant: a failing callback is invoked again, up to maxRetry times
Process_Retry ==
    /\ pc = "process"
    /\ \E e \in {NoErr, "process"} :
          /\ Log(Event("process", msg.offset, e = NoErr, e))
          /\ IF e # NoErr
             THEN /\ err' = e
                  /\ pc' = IF Count("process", msg.offset) + 1 < maxRetry
                           THEN "process" ELSE FailureNext
             ELSE /\ pc' = "commit"
                  /\ UNCHANGED err
    /\ UNCHANGED <<dlq, maxRetry, ctxDone, msg, order, ret, readerClosedBy,
                   dlqTopic, commitFailed, svcVars, libVars, extVars>>

\* processFunc(&order): the callback returns nil or an error
Process ==
    /\ pc = "process"
    /\ \E e \in {NoErr, "process"} :
          /\ Log(Event("process", msg.offset, e = NoErr, e))
          /\ IF e # NoErr
             THEN /\ err' = e
                  /\ pc' = FailureNext
             ELSE /\ pc' = "commit"
                  /\ UNCHANGED err
    /\ UNCHANGED <<dlq, maxRetry, ctxDone, msg, order, ret, readerClosedBy,
                   dlqTopic, commitFailed, svcVars, libVars, extVars>>

\* c.dlq.SendToDLQ(dlqMsg, err, 1): build the record, marshal it, write
\* it; the result is only logged by Consume
SendToDLQ ==
    /\ pc = "dlq"
    /\ LET dlqMsg == [topic |-> Topic, key |-> msg.key, value |-> msg.value]
           m == MarshalDLQ(DLQMessage(dlqMsg, err, 1))
       IN  IF m.err # NoErr
           THEN /\ Log(Event("dlq", msg.offset, FALSE, 1))
                /\ UNCHANGED dlqTopic
           ELSE \E sendErr \in BOOLEAN :
                   /\ Log(Event("dlq", msg.offset, ~sendErr, 1))
                   /\ dlqTopic' = IF sendErr THEN dlqTopic
                                  ELSE Append(dlqTopic, m.json)
    /\ pc' = "commit"
    /\ UNCHANGED <<dlq, maxRetry, ctxDone, msg, order, err, ret, readerClosedBy,
                   commitFailed, svcVars, libVars, extVars>>

\* mutant: a failed commit makes Consume return the error
CommitMessages_ReturnOnError ==
    /\ pc = "commit"
    /\ Log(Event("commit", msg.offset, TRUE, err))
    /\ \E ok \in BOOLEAN :
          /\ commitFailed' = ~ok
          /\ IF ok
             THEN pc' = "top" /\ UNCHANGED ret
             ELSE pc' = "returned" /\ ret' = "err"
    /\ msg' = NoMsg
    /\ order' = NoOrder
    /\ err' = NoErr
    /\ UNCHANGED <<dlq, maxRetry, ctxDone, readerClosedBy, dlqTopic, svcVars,
                   libVars, extVars>>

\* mutant: the failure branches continue without committing
CommitMessages_OnlyOnSuccess ==
    /\ pc = "commit"
    /\ IF err = NoErr
       THEN /\ \E ok \in BOOLEAN : commitFailed' = ~ok
            /\ Log(Event("commit", msg.offset, TRUE, err))
       ELSE UNCHANGED <<commitFailed, log>>
    /\ pc' = "top"
    /\ msg' = NoMsg
    /\ order' = NoOrder
    /\ err' = NoErr
    /\ UNCHANGED <<dlq, maxRetry, ctxDone, ret, readerClosedBy, dlqTopic,
                   svcVars, libVars, extVars>>

\* c.reader.CommitMessages(ctx, msg): a failure is only logged; the
\* iteration ends
CommitMessages ==
    /\ pc = "commit"
    /\ \E ok \in BOOLEAN : commitFailed' = ~ok
    /\ Log(Event("commit", msg.offset, TRUE, err))
    /\ pc' = "top"
    /\ msg' = NoMsg
    /\ order' = NoOrder
    /\ err' = NoErr
    /\ UNCHANGED <<dlq, maxRetry, ctxDone, ret, readerClosedBy, dlqTopic,
                   svcVars, libVars, extVars>>

Consume ==
    \/ LoopTop
    \/ FetchMessage
    \/ FetchError
    \/ Decode
    \/ ValidateOrder
    \/ Process
    \/ SendToDLQ
    \/ CommitMessages

Next ==
    \/ \E n \in MaxRetryValues : SetMaxRetry(n)
    \/ Start
    \/ Cancel
    \/ Consume

Spec == Init /\ [][Next]_vars

\* the consumer goroutine keeps running: the callback and the broker
\* calls return
FairSpec == Spec /\ WF_vars(Start) /\ WF_vars(Consume)

----------------------------------------------------------------------------
(* Service.ProcessOrder, with Postgres.SaveOrder inside it *)

\* mutant: a failed warm-up ends the process (log.Fatalf)
Serving_Fatal == boot.pc = "done" /\ boot.ret = NoErr

\* main starts the consumer and the handlers after WarmUpCache returned,
\* whatever it returned: its error is only logged
Serving == boot.pc = "done"

\* a store operation may fail, must fail, has failed
CanFail == hist.down \/ hist.faults > 0

MustFail == hist.down

Fault ==
    hist' = IF hist.down THEN hist ELSE [hist EXCEPT !.faults = @ - 1]

\* the store has committed or returned the aggregates os
Accept(os) == hist' = [hist EXCEPT !.accepted = @ \cup os]

\* hist.seq after a call of ProcessOrder: "put" when no GetOrder of the
\* same order_uid is running, "mixed" otherwise
SeqPut(o) ==
    IF gr.pc \notin {"idle", "done"} /\ gr.uid = o.uid
    THEN "mixed"
    ELSE "put"

\* hist.seq after a call of GetOrder: "put-get" when it follows a
\* ProcessOrder of the same order_uid that has returned and that no
\* GetOrder overlapped
SeqGet(uid) ==
    IF po.order.uid # uid
    THEN hist.seq
    ELSE IF po.pc # "done"
         THEN "mixed"
         ELSE IF hist.seq = "put" THEN "put-get" ELSE hist.seq

\* the consumer's callback is called with a decoded order
ProcessOrder(o) ==
    /\ Serving
    /\ po.pc \in {"idle", "done"}
    /\ hist.calls < MaxCalls
    /\ po' = [PoIdle EXCEPT !.pc = "otop", !.order = o]
    /\ hist' = [hist EXCEPT !.calls = @ + 1, !.seq = SeqPut(o)]
    /\ UNCHANGED <<kafkaVars, libVars, extVars, store, cache, now, boot, gr>>

\* mutant: the cache is updated whatever SaveOrder returned
AfterSaveOrder_SetAnyway(f, e) == [f EXCEPT !.oerr = e, !.pc = "set"]

\* ProcessOrder's retry loop, from the return of s.db.SaveOrder with e:
\* nil ends the loop, the last attempt's error is returned, any other
\* error is followed by a wait
AfterSaveOrder(f, e) ==
    IF e = NoErr
    THEN [f EXCEPT !.pc = "set"]
    ELSE IF f.outer = HeavyPolicy.MaxAttempts - 1
         THEN PoReturn([f EXCEPT !.oerr = e], e)
         ELSE [f EXCEPT !.oerr = e, !.pc = "owait"]

\* top of ProcessOrder's retry loop: return when the context is done,
\* otherwise call s.db.SaveOrder
PoTop ==
    /\ po.pc = "otop"
    /\ po' = IF po.done
             THEN PoReturn(po, CtxReturn(po.oerr))
             ELSE [po EXCEPT !.pc = "itop", !.inner = 0, !.ierr = NoErr]
    /\ UNCHANGED <<kafkaVars, libVars, extVars, store, cache, now, boot, gr,
                   hist>>

\* top of SaveOrder's retry loop: return when the context is done,
\* otherwise run the transaction once; with the store down the
\* transaction cannot begin
SaveOrder ==
    /\ po.pc = "itop"
    /\ IF po.done
       THEN /\ po' = AfterSaveOrder(po, CtxReturn(po.ierr))
            /\ UNCHANGED <<store, hist>>
       ELSE \E failAt \in Failures :
               LET a == Attempt(store, po.order, failAt)
                   f == [po EXCEPT !.runs = @ + 1, !.ierr = a.err,
                                   !.saved = @ \/ a.err = NoErr]
               IN  /\ IF failAt = "none"
                      THEN /\ ~MustFail
                           /\ Accept({Stored(a.store, po.order.uid)})
                      ELSE /\ CanFail
                           /\ MustFail => failAt = "begin"
                           /\ Fault
                   /\ store' = a.store
                   /\ po' = IF a.err = NoErr
                            THEN AfterSaveOrder(f, NoErr)
                            ELSE IF po.inner = HeavyPolicy.MaxAttempts - 1
                                 THEN AfterSaveOrder(f, a.err)
                                 ELSE [f EXCEPT !.pc = "iwait"]
    /\ UNCHANGED <<kafkaVars, libVars, extVars, cache, now, boot, gr>>

\* the wait of SaveOrder's retry loop: the timer fires, or the context
\* is done and SaveOrder returns ctx.Err()
SaveOrderWait ==
    /\ po.pc = "iwait"
    /\ \/ /\ po.elapsed + MinDelay(HeavyPolicy, po.inner) < ProcessTimeout
          /\ po' = [po EXCEPT
                       !.elapsed = @ + MinDelay(HeavyPolicy, po.inner),
                       !.inner = @ + 1, !.pc = "itop"]
       \/ /\ po.done
          /\ po' = AfterSaveOrder(po, "ctx")
    /\ UNCHANGED <<kafkaVars, libVars, extVars, store, cache, now, boot, gr,
                   hist>>

\* the wait of ProcessOrder's retry loop
PoWait ==
    /\ po.pc = "owait"
    /\ \/ /\ po.elapsed + MinDelay(HeavyPolicy, po.outer) < ProcessTimeout
          /\ po' = [po EXCEPT
                       !.elapsed = @ + MinDelay(HeavyPolicy, po.outer),
                       !.outer = @ + 1, !.pc = "otop"]
       \/ /\ po.done
          /\ po' = PoReturn(po, "ctx")
    /\ UNCHANGED <<kafkaVars, libVars, extVars, store, cache, now, boot, gr,
                   hist>>

\* the ten seconds of ProcessOrder's context are over
PoDeadline ==
    /\ po.pc \notin {"idle", "done"}
    /\ ~po.done
    /\ po' = [po EXCEPT !.done = TRUE]
    /\ UNCHANGED <<kafkaVars, libVars, extVars, store, cache, now, boot, gr,
                   hist>>

\* s.cache.Set(order); return nil
PoSet ==
    /\ po.pc = "set"
    /\ cache' = CacheSet(cache, po.order, now)
    /\ po' = PoReturn([po EXCEPT !.sets = @ + 1], NoErr)
    /\ UNCHANGED <<kafkaVars, libVars, extVars, store, now, boot, gr, hist>>

----------------------------------------------------------------------------
(* Service.GetOrder, with Postgres.GetOrder inside it *)

\* Service.GetOrder up to the cache lookup: a hit returns the cached
\* order, a miss goes on to s.db.GetOrder
GetOrder(uid) ==
    /\ Serving
    /\ gr.pc \in {"idle", "done"}
    /\ hist.calls < MaxCalls
    /\ LET c == CacheGet(cache, uid, now)
       IN  gr' = IF c.exists
                 THEN GrReturn([GrIdle EXCEPT !.uid = uid, !.hit = TRUE],
                               c.order, NoErr)
                 ELSE [GrIdle EXCEPT !.pc = "top", !.uid = uid]
    /\ hist' = [hist EXCEPT !.calls = @ + 1, !.seq = SeqGet(uid)]
    /\ UNCHANGED <<kafkaVars, libVars, extVars, store, cache, now, boot, po>>

\* mutant: an error of the store is answered with an empty order, which
\* is cached like any other
AfterRead_SetOnError(f, e) ==
    [f EXCEPT !.lastErr = e, !.order = Aggregate(f.uid, 0, <<>>),
              !.pc = "set"]

\* Postgres.GetOrder's retry loop, from the return of its function with
\* the error e: the last attempt's error is returned, which makes
\* Service.GetOrder return (nil, err); any other error is followed by a
\* wait
AfterRead(f, e) ==
    IF f.attempt = DefaultPolicy.MaxAttempts - 1
    THEN GrReturn(f, NoAggregate, e)
    ELSE [f EXCEPT !.lastErr = e, !.pc = "wait"]

\* top of Postgres.GetOrder's retry loop
GrTop ==
    /\ gr.pc = "top"
    /\ gr' = IF gr.done
             THEN GrReturn(gr, NoAggregate, CtxReturn(gr.lastErr))
             ELSE [gr EXCEPT !.pc = "hdr", !.temp = NoAggregate]
    /\ UNCHANGED <<kafkaVars, libVars, extVars, store, cache, now, boot, po,
                   hist>>

\* QueryRow(GetOrderByUIDQuery).Scan: a query error, pgx.ErrNoRows (both
\* returned to the retry loop as errors), or the joined row
QueryHeader ==
    /\ gr.pc = "hdr"
    /\ LET f == [gr EXCEPT !.reads = @ + 1]
       IN  \/ /\ CanFail
              /\ Fault
              /\ gr' = AfterRead(f, "query")
           \/ /\ ~MustFail
              /\ ~InStore(store, gr.uid)
              /\ gr' = AfterRead(f, "notfound")
              /\ UNCHANGED hist
           \/ /\ ~MustFail
              /\ InStore(store, gr.uid)
              /\ gr' = [f EXCEPT !.temp = Header(store, gr.uid),
                                 !.pc = "items"]
              /\ UNCHANGED hist
    /\ UNCHANGED <<kafkaVars, libVars, extVars, store, cache, now, boot, po>>

\* Query(GetItemsByOrderUIDQuery) and the scan of its rows: an error, or
\* the item list, with which the function returns nil and s.db.GetOrder
\* returns the order
QueryItems ==
    /\ gr.pc = "items"
    /\ \/ /\ CanFail
          /\ Fault
          /\ gr' = AfterRead(gr, "query")
       \/ /\ ~MustFail
          /\ gr' = [gr EXCEPT
                       !.order = [gr.temp EXCEPT !.items =
                                     GetItemsByOrderUID(store, gr.uid)],
                       !.pc = "set"]
          /\ Accept({gr'.order})
    /\ UNCHANGED <<kafkaVars, libVars, extVars, store, cache, now, boot, po>>

\* the wait of Postgres.GetOrder's retry loop
GrWait ==
    /\ gr.pc = "wait"
    /\ \/ /\ gr.elapsed + MinDelay(DefaultPolicy, gr.attempt) < GetTimeout
          /\ gr' = [gr EXCEPT
                       !.elapsed = @ + MinDelay(DefaultPolicy, gr.attempt),
                       !.attempt = @ + 1, !.pc = "top"]
       \/ /\ gr.done
          /\ gr' = GrReturn(gr, NoAggregate, "ctx")
    /\ UNCHANGED <<kafkaVars, libVars, extVars, store, cache, now, boot, po,
                   hist>>

\* the five seconds of GetOrder's context are over
GrDeadline ==
    /\ gr.pc \notin {"idle", "done"}
    /\ ~gr.done
    /\ gr' = [gr EXCEPT !.done = TRUE]
    /\ UNCHANGED <<kafkaVars, libVars, extVars, store, cache, now, boot, po,
                   hist>>

\* mutant: the order read from the store is returned without being put
\* in the cache
GrSet_NoBackfill ==
    /\ gr.pc = "set"
    /\ gr' = GrReturn(gr, gr.order, NoErr)
    /\ UNCHANGED <<kafkaVars, libVars, extVars, store, cache, now, boot, po,
                   hist>>

\* s.cache.Set(order); return order, nil
GrSet ==
    /\ gr.pc = "set"
    /\ cache' = CacheSet(cache, gr.order, now)
    /\ gr' = GrReturn([gr EXCEPT !.sets = @ + 1], gr.order, NoErr)
    /\ UNCHANGED <<kafkaVars, libVars, extVars, store, now, boot, po, hist>>

----------------------------------------------------------------------------
(* Service.WarmUpCache, the clock and the cleanup goroutine *)

Prefixes(q) == {SubSeq(q, 1, k) : k \in 0 .. Len(q)}

\* the items loop of Postgres.GetAllOrders for one order: a failed items
\* query is logged and the order keeps no items, a failed scan is logged
\* and the order keeps the items scanned before it
ItemsRead(s, uid) == Prefixes(GetItemsByOrderUID(s, uid))

RECURSIVE SeqOf(_)
SeqOf(S) ==
    IF S = {}
    THEN <<>>
    ELSE LET x == CHOOSE x \in S : TRUE IN <<x>> \o SeqOf(S \ {x})

\* the slices GetAllOrders may return for the tables s
AllOrders(s) ==
    LET present == {u \in OrderUIDs : InStore(s, u)}
        reads == {f \in [present -> UNION {ItemsRead(s, u) : u \in present}] :
                     \A u \in present : f[u] \in ItemsRead(s, u)}
    IN  {SeqOf({[Header(s, u) EXCEPT !.items = f[u]] : u \in present}) :
            f \in reads}

\* what GetAllOrders returns when no query fails
WholeOrders(s) == SeqOf(StoredIn(s))

\* Service.WarmUpCache: GetAllOrders fails and its error is returned, or
\* the orders it returns are loaded into the cache
WarmUpCache ==
    /\ boot.pc = "idle"
    /\ \/ /\ CanFail
          /\ Fault
          /\ boot' = [boot EXCEPT !.pc = "done", !.ret = "query"]
          /\ UNCHANGED cache
       \/ \E orders \in AllOrders(store) :
             /\ ~MustFail
             /\ IF orders = WholeOrders(store)
                THEN UNCHANGED hist
                ELSE /\ CanFail
                     /\ hist' = [hist EXCEPT
                           !.faults = @ - 1,
                           !.accepted =
                              @ \cup {orders[i] : i \in DOMAIN orders}]
             /\ cache' = LoadFromSlice(cache, orders, now)
             /\ boot' = [boot EXCEPT !.pc = "done", !.ret = NoErr]
    /\ UNCHANGED <<kafkaVars, libVars, extVars, store, now, po, gr>>

\* time passes
Tick ==
    /\ now < MaxTime
    /\ now' = now + 1
    /\ UNCHANGED <<kafkaVars, libVars, extVars, store, cache, boot, po, gr,
                   hist>>

\* runCleanup: the ticker fires and s.cache.Cleanup() runs
RunCleanup ==
    /\ cache' = CacheCleanup(cache, now)
    /\ UNCHANGED <<kafkaVars, libVars, extVars, store, now, boot, po, gr,
                   hist>>

SvcNext ==
    \/ WarmUpCache
    \/ \E o \in Orders : ProcessOrder(o)
    \/ PoTop
    \/ SaveOrder
    \/ SaveOrderWait
    \/ PoWait
    \/ PoDeadline
    \/ PoSet
    \/ \E uid \in OrderUIDs : GetOrder(uid)
    \/ GrTop
    \/ QueryHeader
    \/ QueryItems
    \/ GrWait
    \/ GrDeadline
    \/ GrSet
    \/ Tick
    \/ RunCleanup

SvcSpec == SvcInit /\ [][SvcNext]_vars

----------------------------------------------------------------------------
(* The TTL cache called directly by concurrent goroutines *)

\* the slices LoadFromSlice is called with: distinct order_uids, and the
\* same order_uid twice
LoadInputs ==
    {<<Aggregate("a", 1, <<1, 2>>), Aggregate("b", 1, <<1, 2>>)>>,
     <<Aggregate("a", 1, <<1, 2>>), Aggregate("a", 2, <<2>>)>>}

\* mutant: Set takes the read lock
Writers_SetReads == {"LoadFromSlice", "Cleanup"}

\* the methods that take c.mu.Lock(); the others take c.mu.RLock()
Writers == {"Set", "LoadFromSlice", "Cleanup"}

Readers == {"Get", "GetAll", "Size"}

\* the calls made on the cache so far
CallsMade ==
    Cardinality({p \in Threads \X (1 .. MaxOps) : p[2] <= th[p[1]].calls})

\* a goroutine enters a method of the cache
Call(t, op, arg, uid) ==
    /\ th[t].pc \in {"idle", "done"}
    /\ CallsMade < MaxOps
    /\ th' = [th EXCEPT ![t] =
                 [ThIdle EXCEPT !.pc = "lock", !.op = op, !.arg = arg,
                                !.uid = uid, !.calls = th[t].calls + 1]]
    /\ UNCHANGED <<kafkaVars, svcVars, extVars, mu, rt>>

\* c.mu.Lock(): no goroutine holds the lock in either mode
Lock(t) ==
    /\ th[t].pc = "lock"
    /\ th[t].op \in Writers
    /\ mu = MuFree
    /\ mu' = [mu EXCEPT !.writer = t]
    /\ th' = [th EXCEPT ![t].pc = "in"]
    /\ UNCHANGED <<kafkaVars, svcVars, extVars, rt>>

\* c.mu.RLock(): no goroutine holds the write lock
RLock(t) ==
    /\ th[t].pc = "lock"
    /\ th[t].op \notin Writers
    /\ mu.writer = "none"
    /\ mu' = [mu EXCEPT !.readers = @ \cup {t}]
    /\ th' = [th EXCEPT ![t].pc = "in"]
    /\ UNCHANGED <<kafkaVars, svcVars, extVars, rt>>

\* the deferred c.mu.Unlock() / c.mu.RUnlock(), and the return
Unlock(t) ==
    /\ th[t].pc = "out"
    /\ mu' = [writer |-> IF mu.writer = t THEN "none" ELSE mu.writer,
              readers |-> mu.readers \ {t}]
    /\ th' = [th EXCEPT ![t].pc = "done"]
    /\ UNCHANGED <<kafkaVars, svcVars, extVars, rt>>

\* Set under the lock: the entry of order.OrderUID is replaced
DoSet(t) ==
    /\ th[t].pc = "in"
    /\ th[t].op = "Set"
    /\ cache' = CacheSet(cache, th[t].arg[1], now)
    /\ th' = [th EXCEPT ![t].pc = "out"]
    /\ UNCHANGED <<kafkaVars, extVars, store, now, boot, po, gr, hist, mu,
                   rt>>

\* one iteration of LoadFromSlice's loop, which reads the clock anew for
\* each element; the loop ends when the slice is used up
DoLoadFromSlice(t) ==
    /\ th[t].pc = "in"
    /\ th[t].op = "LoadFromSlice"
    /\ IF th[t].arg = <<>>
       THEN /\ th' = [th EXCEPT ![t].pc = "out"]
            /\ UNCHANGED cache
       ELSE /\ cache' = CacheSet(cache, Head(th[t].arg), now)
            /\ th' = [th EXCEPT ![t].arg = Tail(@)]
    /\ UNCHANGED <<kafkaVars, extVars, store, now, boot, po, gr, hist, mu,
                   rt>>

\* Cleanup under the lock
DoCleanup(t) ==
    /\ th[t].pc = "in"
    /\ th[t].op = "Cleanup"
    /\ cache' = CacheCleanup(cache, now)
    /\ th' = [th EXCEPT ![t].pc = "out"]
    /\ UNCHANGED <<kafkaVars, extVars, store, now, boot, po, gr, hist, mu,
                   rt>>

\* Get under the read lock
DoGet(t) ==
    /\ th[t].pc = "in"
    /\ th[t].op = "Get"
    /\ LET g == CacheGet(cache, th[t].uid, now)
       IN  th' = [th EXCEPT ![t].pc = "out", ![t].at = now,
                            ![t].res.order = g.order,
                            ![t].res.exists = g.exists]
    /\ UNCHANGED <<kafkaVars, svcVars, extVars, mu, rt>>

\* GetAll under the read lock
DoGetAll(t) ==
    /\ th[t].pc = "in"
    /\ th[t].op = "GetAll"
    /\ \E all \in GetAll(cache, now) :
          th' = [th EXCEPT ![t].pc = "out", ![t].at = now,
                           ![t].res.all = all]
    /\ UNCHANGED <<kafkaVars, svcVars, extVars, mu, rt>>

\* Size under the read lock
DoSize(t) ==
    /\ th[t].pc = "in"
    /\ th[t].op = "Size"
    /\ th' = [th EXCEPT ![t].pc = "out", ![t].at = now,
                        ![t].res.size = Size(cache, now)]
    /\ UNCHANGED <<kafkaVars, svcVars, extVars, mu, rt>>

\* cache.New(ttl): an empty map, the lock free, no goroutine in a method,
\* and no call of DoWithContext made
LibInit ==
    /\ KafkaIdle
    /\ SvcIdle
    /\ LibIdle
    /\ ExtIdle

CacheNext ==
    \/ \E t \in Threads : \E o \in Orders : Call(t, "Set", <<o>>, o.uid)
    \/ \E t \in Threads : \E uid \in OrderUIDs : Call(t, "Get", <<>>, uid)
    \/ \E t \in Threads : Call(t, "GetAll", <<>>, "")
    \/ \E t \in Threads : Call(t, "Size", <<>>, "")
    \/ \E t \in Threads : Call(t, "Cleanup", <<>>, "")
    \/ \E t \in Threads : \E orders \in LoadInputs :
          Call(t, "LoadFromSlice", orders, "")
    \/ \E t \in Threads : Lock(t)
    \/ \E t \in Threads : RLock(t)
    \/ \E t \in Threads : Unlock(t)
    \/ \E t \in Threads : DoSet(t)
    \/ \E t \in Threads : DoLoadFromSlice(t)
    \/ \E t \in Threads : DoCleanup(t)
    \/ \E t \in Threads : DoGet(t)
    \/ \E t \in Threads : DoGetAll(t)
    \/ \E t \in Threads : DoSize(t)
    \/ Tick

CacheSpec == LibInit /\ [][CacheNext]_vars

----------------------------------------------------------------------------
(* retry.DoWithContext called on its own *)

\* the policy of TestMaxBackoffLimit with the nanosecond as its unit (a
\* time.Duration is an int64 count of nanoseconds); MaxAttempts, Jitter
\* and InitialBackoff are chosen by the caller
TestPolicy ==
    [InitialBackoff |-> 10, MaxBackoff |-> 50, FactorNum |-> 10,
     FactorDen |-> 1]

\* the values of policy.InitialBackoff the caller chooses from: none, one
\* nanosecond, the one of TestMaxBackoffLimit, and one just under
\* MaxBackoff
InitialBackoffs == {0, 1, TestPolicy.InitialBackoff, 40}

\* if policy.MaxAttempts <= 0 { policy.MaxAttempts = 1 }
EffectiveAttempts(n) == IF n <= 0 THEN 1 ELSE n

\* the values rand.Int63n(int64(backoff / 2)) may return, none when the
\* argument is not positive; without policy.Jitter nothing is added
Jitters(backoff, jitter) ==
    IF jitter THEN 0 .. (backoff \div 2) - 1 ELSE {0}

\* mutant: the backoff is cut at policy.MaxBackoff before the jitter is
\* added
Delay_CapFirst(backoff, j) ==
    IF backoff > TestPolicy.MaxBackoff
    THEN TestPolicy.MaxBackoff + j
    ELSE backoff + j

\* mutant: the delay is not cut at policy.MaxBackoff
Delay_NoCut(backoff, j) == backoff + j

\* delay = backoff + jitter, cut at policy.MaxBackoff
Delay(backoff, j) ==
    IF backoff + j > TestPolicy.MaxBackoff
    THEN TestPolicy.MaxBackoff
    ELSE backoff + j

\* DoWithContext is called with a policy, an operation that fails on its
\* first `fails` invocations, and a context that may be cancelled already
DoWithContext(n, d0, jitter, fails, cancelled) ==
    /\ rt.pc = "idle"
    /\ rt' = [RtIdle EXCEPT
                 !.pc = "top", !.n = n, !.max = EffectiveAttempts(n),
                 !.jitter = jitter, !.fails = fails, !.d0 = d0,
                 !.backoff = d0,
                 !.cancelled = cancelled,
                 !.cancelledAt = IF cancelled THEN "entry" ELSE "none"]
    /\ UNCHANGED <<kafkaVars, svcVars, extVars, mu, th>>

\* the caller cancels the context while DoWithContext runs
RtCancel ==
    /\ rt.pc \in {"top", "call", "wait"}
    /\ ~rt.cancelled
    /\ rt' = [rt EXCEPT !.cancelled = TRUE, !.cancelledAt = rt.pc]
    /\ UNCHANGED <<kafkaVars, svcVars, extVars, mu, th>>

\* top of the loop: the loop condition, then the select on ctx.Done()
\* with its default branch
RtTop ==
    /\ rt.pc = "top"
    /\ rt' = IF rt.attempt >= rt.max
             THEN [rt EXCEPT !.pc = "done", !.ret = rt.lastErr]
             ELSE IF rt.cancelled
                  THEN [rt EXCEPT !.pc = "done",
                                  !.ret = CtxReturn(rt.lastErr)]
                  ELSE [rt EXCEPT !.pc = "call"]
    /\ UNCHANGED <<kafkaVars, svcVars, extVars, mu, th>>

\* err := fn(ctx) and what follows it up to the timer: nil is returned at
\* once, the last attempt's error leaves the loop and is returned, any
\* other error is followed by a wait of the computed delay; rand.Int63n
\* panics when its argument int64(backoff / 2) is not positive
Invoke ==
    /\ rt.pc = "call"
    /\ LET k == rt.calls + 1
           f == [rt EXCEPT !.calls = k]
       IN  IF k > rt.fails
           THEN rt' = [f EXCEPT !.pc = "done", !.ret = NoErr]
           ELSE IF rt.attempt = rt.max - 1
                THEN rt' = [f EXCEPT !.pc = "done", !.lastErr = Errs[k],
                                     !.ret = Errs[k]]
                ELSE IF Jitters(rt.backoff, rt.jitter) = {}
                     THEN rt' = [f EXCEPT !.pc = "panic",
                                          !.lastErr = Errs[k]]
                     ELSE \E j \in Jitters(rt.backoff, rt.jitter) :
                             rt' = [f EXCEPT
                                       !.pc = "wait", !.lastErr = Errs[k],
                                       !.j = j,
                                       !.delay = Delay(rt.backoff, j)]
    /\ UNCHANGED <<kafkaVars, svcVars, extVars, mu, th>>

\* the select of the wait takes timer.C: the timer has fired, and the
\* context is not done or became done at about the same time
TimerFires ==
    /\ rt.pc = "wait"
    /\ ~rt.cancelled \/ rt.cancelledAt = "wait"
    /\ rt' = [rt EXCEPT
                 !.pc = "top", !.attempt = @ + 1, !.waits = @ + 1,
                 !.backoff = (@ * TestPolicy.FactorNum)
                                \div TestPolicy.FactorDen]
    /\ UNCHANGED <<kafkaVars, svcVars, extVars, mu, th>>

\* the select of the wait takes ctx.Done(): return ctx.Err()
WaitCancelled ==
    /\ rt.pc = "wait"
    /\ rt.cancelled
    /\ rt' = [rt EXCEPT !.pc = "done", !.ret = "ctx"]
    /\ UNCHANGED <<kafkaVars, svcVars, extVars, mu, th>>

RetryNext ==
    \/ \E n \in -1 .. MaxAttempts : \E jitter, cancelled \in BOOLEAN :
          \E fails \in 0 .. MaxAttempts + 1 : \E d0 \in InitialBackoffs :
             DoWithContext(n, d0, jitter, fails, cancelled)
    \/ RtCancel
    \/ RtTop
    \/ Invoke
    \/ TimerFires
    \/ WaitCancelled

RetrySpec == LibInit /\ [][RetryNext]_vars

----------------------------------------------------------------------------
(* Reading the history *)

Fetched == 1 .. NFetched

Pos(op, off) == CHOOSE i \in Idx(op, off) : TRUE

\* the body of the message fetched at offset off
Value(off) == log[Pos("fetch", off)].val

\* the iteration that handled off has ended
Finished(off) == off \in Fetched /\ msg.offset # off

DecodeFails(off) == Unmarshal(Value(off)).err # NoErr

ValidationFails(off) ==
    /\ ~DecodeFails(off)
    /\ Validate(Unmarshal(Value(off)).order) # NoErr

WellFormed(off) == ~DecodeFails(off) /\ ~ValidationFails(off)

ProcessFailed(off) == \E i \in Idx("process", off) : ~log[i].ok

\* the records of the dead-letter topic that came from offset off
Records(off) == {i \in DOMAIN dlqTopic : dlqTopic[i].key = off}

\* offset off is committed only after its process and dead-letter calls
InOrder(op1, op2, off) ==
    \A i \in Idx(op1, off) : \A j \in Idx(op2, off) : i < j

----------------------------------------------------------------------------
(* C1 *)

\* C1: with a dead-letter publisher configured, every fetched message that
\* fails decoding or validation gets exactly one SendToDLQ call, then
\* exactly one CommitMessages call, and Consume does not return because of
\* it (it returns only on cancellation); every later well-formed message
\* whose iteration ended was handed to the callback once and then
\* committed once.
C1_PoisonIsolation ==
    dlq =>
      /\ pc = "returned" => ctxDone /\ msg = NoMsg
      /\ \A off \in Fetched :
            Finished(off) /\ (DecodeFails(off) \/ ValidationFails(off)) =>
              /\ Count("dlq", off) = 1
              /\ Count("commit", off) = 1
              /\ InOrder("dlq", "commit", off)
              /\ \A later \in Fetched :
                    later > off /\ Finished(later) /\ WellFormed(later) =>
                      /\ Count("process", later) = 1
                      /\ Count("commit", later) = 1
                      /\ InOrder("process", "commit", later)

\* a decode failure at offset 1, then a well-formed message processed and
\* committed at offset 2
C1_Witness ==
    /\ dlq
    /\ NFetched >= 2
    /\ Finished(1) /\ DecodeFails(1) /\ Count("dlq", 1) = 1
    /\ Finished(2) /\ WellFormed(2) /\ Count("process", 2) = 1
    /\ Count("commit", 2) = 1

----------------------------------------------------------------------------
(* C2 *)

\* C2: for a payload that is not syntactically valid JSON exactly one
\* dead-letter record is published, its original-message field equals the
\* received payload and its attempts field is 1, and the offset is
\* committed.
C2_RawBytesPublished ==
    dlq =>
      \A off \in Fetched :
         Finished(off) /\ ~JSONValid(Value(off)) =>
           /\ Cardinality(Records(off)) = 1
           /\ \A i \in Records(off) :
                 /\ dlqTopic[i].original_message = Value(off)
                 /\ dlqTopic[i].attempts = 1
           /\ Count("commit", off) = 1

----------------------------------------------------------------------------
(* C3 *)

\* C3 as stated: every message committed after a decode or validation
\* failure has a record in the dead-letter topic before the commit,
\* whatever the broker calls return.
C3_AlwaysDeadLettered ==
    dlq =>
      \A off \in Fetched :
         /\ DecodeFails(off) \/ ValidationFails(off)
         /\ Count("commit", off) >= 1
         => Records(off) # {}

\* C3 amended: every message committed after a decode or validation
\* failure had exactly one SendToDLQ call, which returned before the
\* commit; the commit is made whether or not that call succeeded, and the
\* dead-letter topic holds a record for the message exactly when it did.
C3_DeadLetterAttempted ==
    dlq =>
      \A off \in Fetched :
         /\ DecodeFails(off) \/ ValidationFails(off)
         /\ Count("commit", off) >= 1
         => /\ Count("dlq", off) = 1
            /\ InOrder("dlq", "commit", off)
            /\ Cardinality(Records(off)) =
                  IF log[Pos("dlq", off)].ok THEN 1 ELSE 0

\* a validation failure whose dead-letter write failed and which was
\* committed all the same
C3_Witness ==
    /\ dlq
    /\ \E off \in Fetched :
          /\ ValidationFails(off)
          /\ Count("dlq", off) = 1
          /\ ~log[Pos("dlq", off)].ok
          /\ Records(off) = {}
          /\ Count("commit", off) = 1

----------------------------------------------------------------------------
(* C4 *)

\* the call at log position j settles the outcome of offset off: the
\* callback returned success, or the failure branch finished (its
\* SendToDLQ call returned, or there is no publisher to call)
Settles(j, off) ==
    /\ log[j].off = off
    /\ \/ log[j].op = "process" /\ log[j].ok
       \/ dlq /\ log[j].op = "dlq"
       \/ ~dlq /\ log[j].op \in {"decode", "validate", "process"} /\ ~log[j].ok

\* C4: every CommitMessages call comes after the call that settled its
\* message's outcome and before any later message is fetched, every fetch
\* but the first comes after the commit of the message before it, and the
\* k-th commit of a run is for the k-th fetched message.
C4_CommitInFetchOrder ==
    /\ \A i \in DOMAIN log :
          log[i].op = "commit" =>
            /\ \E j \in 1 .. (i - 1) : Settles(j, log[i].off)
            /\ \A k \in 1 .. (i - 1) :
                  log[k].op = "fetch" => log[k].off <= log[i].off
            /\ Cardinality({k \in 1 .. i : log[k].op = "commit"}) = log[i].off
    /\ \A k \in DOMAIN log :
          log[k].op = "fetch" /\ log[k].off > 1 =>
            \E i \in 1 .. (k - 1) :
               log[i].op = "commit" /\ log[i].off = log[k].off - 1

\* two messages fetched and committed, the first one through a failure
\* branch
C4_Witness ==
    /\ NFetched >= 2
    /\ Count("commit", 1) = 1 /\ Count("commit", 2) = 1
    /\ ~WellFormed(1)
    /\ Pos("commit", 1) < Pos("fetch", 2)
    /\ Pos("fetch", 2) < Pos("commit", 2)

----------------------------------------------------------------------------
(* C5 *)

\* C5: a message whose body failed decoding is never validated, and a
\* message that failed decoding or validation is never handed to the
\* processing callback.
C5_FailedNeverReaches ==
    \A off \in Fetched :
       /\ DecodeFails(off) =>
             Count("validate", off) = 0 /\ Count("process", off) = 0
       /\ ValidationFails(off) => Count("process", off) = 0

\* a decode failure and a validation failure both handled to the end
C5_Witness ==
    \E a, b \in Fetched :
       /\ Finished(a) /\ DecodeFails(a) /\ Count("decode", a) = 1
       /\ Finished(b) /\ ValidationFails(b) /\ Count("validate", b) = 1

----------------------------------------------------------------------------
(* C6 *)

----------------------------------------------------------------------------
(* C7 *)

\* C7: on the success path CommitMessages is called only after the
\* callback returned nil for that message, and a CommitMessages call,
\* failed or not, never makes Consume return: its next position is the top
\* of the loop.
C7_CommitNeverTerminates ==
    [][ pc = "commit" =>
          /\ err = NoErr =>
                /\ Count("process", msg.offset) = 1
                /\ log[Pos("process", msg.offset)].ok
          /\ pc' \in {"commit", "top"}
          /\ ret' = "none" ]_vars

\* the commit of offset 1 failed and offset 2 was fetched after it
C7_Witness ==
    /\ commitFailed
    /\ Count("commit", 1) = 1
    /\ msg.offset = 2

----------------------------------------------------------------------------
(* C8 *)

\* C8: whenever Consume has returned (it returns only on cancellation),
\* Consume itself has closed the reader and the returned value is nil.
C8_ClosedOnCancel ==
    pc = "returned" => "Consume" \in readerClosedBy /\ ret = "nil"

----------------------------------------------------------------------------
(* C9 *)

Cancelled == \E i \in DOMAIN log : log[i].op = "cancel"

CancelPos == CHOOSE i \in DOMAIN log : log[i].op = "cancel"

\* the offsets Consume made a call for after the cancellation
OffsetsAfterCancel ==
    {log[i].off : i \in {k \in DOMAIN log : k > CancelPos}}

\* C9 as stated: once the signal has fired Consume eventually returns;
\* after the signal it works on at most one message and hands the
\* callback no message fetched after the signal.
C9_NoNewMessageAfterCancel ==
    /\ ctxDone ~> (pc = "returned")
    /\ [](Cancelled =>
            /\ Cardinality(OffsetsAfterCancel) <= 1
            /\ \A i \in DOMAIN log :
                  i > CancelPos /\ log[i].op = "process" =>
                     Pos("fetch", log[i].off) < CancelPos)

\* C9 amended: once the signal has fired Consume eventually returns;
\* after the signal it works on at most one message, which is the message
\* already fetched or the one delivered by a FetchMessage call that was
\* under way when the signal fired (that one may still reach the
\* callback); no FetchMessage call delivers a message once the top of the
\* loop has been passed after the signal.
C9_CancelUnwinds ==
    /\ ctxDone ~> (pc = "returned")
    /\ [](Cancelled =>
            /\ Cardinality(OffsetsAfterCancel) <= 1
            /\ \A i \in DOMAIN log :
                  i > CancelPos /\ log[i].op = "fetch" =>
                     log[CancelPos].val = "fetch")

\* the signal fired during the processing of offset 1, that message was
\* committed, and Consume returned without fetching another
C9_Witness ==
    /\ Cancelled
    /\ log[CancelPos].val = "process"
    /\ Count("commit", 1) = 1
    /\ Pos("commit", 1) > CancelPos
    /\ NFetched = 1
    /\ pc = "returned"

----------------------------------------------------------------------------
(* C10 *)

AnyStepFailed(off) ==
    \E i \in DOMAIN log :
       /\ log[i].off = off
       /\ log[i].op \in {"decode", "validate", "process"}
       /\ ~log[i].ok

\* C10: a consumer built without a dead-letter publisher never calls
\* SendToDLQ and publishes nothing; a message that failed decoding,
\* validation or processing is committed once all the same, and Consume
\* does not return because of it.
C10_NoPublisherDrops ==
    ~dlq =>
      /\ dlqTopic = <<>>
      /\ \A i \in DOMAIN log : log[i].op # "dlq"
      /\ pc = "returned" => ctxDone /\ msg = NoMsg
      /\ \A off \in Fetched :
            Finished(off) /\ AnyStepFailed(off) => Count("commit", off) = 1

\* without a publisher: a decode failure committed, then another message
\* fetched
C10_Witness ==
    /\ ~dlq
    /\ NFetched >= 2
    /\ DecodeFails(1)
    /\ Count("commit", 1) = 1

----------------------------------------------------------------------------
(* C11 *)

\* WarmUpCache has returned and no ProcessOrder or GetOrder call is in
\* progress
Quiescent ==
    /\ boot.pc = "done"
    /\ po.pc \in {"idle", "done"}
    /\ gr.pc \in {"idle", "done"}

\* the cache holds an item for uid that has not expired
Live(uid) == uid \in DOMAIN cache /\ ~Expired(cache[uid], now)

\* C11: whatever the interleaving of the GetOrder and ProcessOrder calls,
\* once no call is in progress every cache item that has not expired
\* equals the aggregate the store holds for its identifier.
C11_CacheEqualsStore ==
    Quiescent =>
       \A uid \in OrderUIDs :
          Live(uid) =>
             /\ InStore(store, uid)
             /\ cache[uid].order = Stored(store, uid)

----------------------------------------------------------------------------
(* C12 *)

\* the cache items that a step has put or replaced
Put == {u \in DOMAIN cache' : u \notin DOMAIN cache \/ cache'[u] # cache[u]}

C12_Step ==
    /\ Put # {} => WarmUpCache \/ GrSet \/ PoSet
    /\ PoSet =>
          /\ po.ierr = NoErr
          /\ InStore(store, po.order.uid)
          /\ po.order = Stored(store, po.order.uid)
    /\ \A u \in DOMAIN cache' :
          /\ cache'[u].order.uid = u
          /\ cache'[u].order \in hist'.accepted
          /\ InStore(store', u)

\* C12: a step puts an order in the cache only as part of WarmUpCache, of
\* GetOrder's backfill or of ProcessOrder; every order the cache holds is
\* an aggregate the store has committed or returned; ProcessOrder calls
\* cache.Set only after SaveOrder returned nil; and no identifier is in
\* the cache without being in the store.
C12_CacheDerivedFromStore == [][C12_Step]_vars

\* ProcessOrder has put an order the store did not hold before, and the
\* cache also holds an order that a GetOrder backfill or WarmUpCache put
C12_Witness ==
    /\ po.pc = "done"
    /\ po.sets = 1
    /\ po.order.uid \in DOMAIN cache
    /\ cache[po.order.uid].order = po.order
    /\ \E u \in DOMAIN cache : u # po.order.uid

----------------------------------------------------------------------------
(* C13 *)

\* WarmUpCache has returned and nothing has been called since
WarmedUp == boot.pc = "done" /\ hist.calls = 0

\* C13: after WarmUpCache no cached order has fewer items than the store
\* holds for it, even when an items query failed during the bulk load.
C13_WarmUpKeepsItems ==
    WarmedUp =>
       \A u \in DOMAIN cache :
          Len(cache[u].order.items) >= Len(GetItemsByOrderUID(store, u))

----------------------------------------------------------------------------
(* C14 *)

\* ProcessOrder has returned, and every call of SaveOrder it made
\* returned an error
SaveFailed == po.pc = "done" /\ ~po.saved /\ po.oerr # NoErr

\* C14 as stated: if SaveOrder fails on every attempt, ProcessOrder
\* returns the error SaveOrder returned and does not call cache.Set.
C14_ReturnsStoreError == SaveFailed => po.ret = po.oerr /\ po.sets = 0

\* C14: if SaveOrder fails on every attempt, ProcessOrder returns an
\* error and does not call cache.Set; the error is the one SaveOrder
\* returned last, or the context's error when the deadline of the call
\* has passed.
C14_ReturnsError ==
    SaveFailed =>
       /\ po.ret # NoErr
       /\ po.ret = po.oerr \/ (po.ret = "ctx" /\ po.done)
       /\ po.sets = 0

\* five transaction runs failed and ProcessOrder returned their error
C14_Witness ==
    /\ SaveFailed
    /\ po.runs >= HeavyPolicy.MaxAttempts
    /\ po.ret \in TxErrors
    /\ po.sets = 0

----------------------------------------------------------------------------
(* C15 *)

\* C15: while every transaction run of a ProcessOrder call has failed and
\* its context is not done, the call has run the SaveOrder transaction at
\* most as often as the heavy policy allows attempts.
C15_AtMostHeavyBound ==
    ~po.saved /\ ~po.done => po.runs <= HeavyPolicy.MaxAttempts

----------------------------------------------------------------------------
(* C16 *)

RowsOf(table, uid) == {r \in table : r.uid = uid}

\* C16: after a successful save of an order, also when an earlier save
\* stored the same identifier with other values and another item list,
\* the store holds exactly one order row, one delivery row and one
\* payment row for the identifier, with the values of the latest save,
\* and exactly the item list of the latest save, in its order.
C16_LastSaveWins ==
    po.saved /\ po.pc \in {"set", "done"} =>
       /\ RowsOf(store.orders, po.order.uid)
             = {Row(po.order.uid, po.order.hdr)}
       /\ RowsOf(store.delivery, po.order.uid)
             = {Row(po.order.uid, po.order.delivery)}
       /\ RowsOf(store.payment, po.order.uid)
             = {Row(po.order.uid, po.order.payment)}
       /\ GetItemsByOrderUID(store, po.order.uid) = po.order.items

\* two ProcessOrder calls have succeeded in this run: the first saved a
\* with the item list <<2>>, the second a with the item list <<1, 2>>
C16_Witness ==
    /\ po.saved
    /\ po.pc = "done"
    /\ po.order = Aggregate("a", 1, <<1, 2>>)
    /\ Aggregate("a", 2, <<2>>) \in hist.accepted
    /\ hist.calls = 2
    /\ gr.pc = "idle"

----------------------------------------------------------------------------
(* C17 *)

C17_Step ==
    /\ po.pc = "itop" /\ po'.runs = po.runs + 1 /\ po'.ierr # NoErr
          => store' = store
    /\ store' # store =>
          /\ po.pc = "itop"
          /\ po'.ierr = NoErr
          /\ store' = Committed(store, po.order)

\* C17: a transaction attempt that fails at any statement leaves every
\* row as it was before the attempt, so a SaveOrder call that returns an
\* error has changed no row; the rows change only by a whole committed
\* transaction.
C17_FailedAttemptRolledBack == [][C17_Step]_vars

\* the attempt to save an order that the store does not hold has failed
\* at the item insert, and no row of the order is visible
C17_Witness ==
    /\ po.ierr = "item"
    /\ ~po.saved
    /\ RowsOf(store.orders, po.order.uid) = {}
    /\ RowsOf(store.delivery, po.order.uid) = {}
    /\ RowsOf(store.payment, po.order.uid) = {}

----------------------------------------------------------------------------
(* C18 *)

\* the step is a call of GetOrder
CallsGet ==
    /\ gr.pc \in {"idle", "done"}
    /\ gr'.pc \in {"top", "done"}
    /\ hist'.calls = hist.calls + 1
    /\ po' = po

C18_Step ==
    /\ CallsGet /\ ~Live(gr'.uid) => gr'.pc = "top" /\ ~gr'.hit
    /\ gr.pc = "items" /\ gr'.pc = "set"
          /\ gr.temp = Header(store, gr.uid)
          => gr'.order = Stored(store, gr.uid)
    /\ gr.pc = "set" /\ gr'.pc = "done" =>
          /\ gr'.ret = NoErr
          /\ gr'.order = gr.order
          /\ gr.uid \in DOMAIN cache'
          /\ cache'[gr.uid] = [order |-> gr.order, expireTime |-> now + TTL]
    /\ CallsGet /\ Live(gr'.uid) =>
          /\ gr'.pc = "done"
          /\ gr'.hit
          /\ gr'.ret = NoErr
          /\ gr'.order = cache[gr'.uid].order
          /\ gr'.reads = 0

\* C18: a GetOrder for an identifier the store holds and the cache does
\* not goes to the store, returns the aggregate the store holds (when no
\* save commits between its two reads) and puts it in the cache with a
\* fresh time to live; a following GetOrder before the item expires
\* returns the cached aggregate without reading the store.
C18_ReadThrough == [][C18_Step]_vars

\* nothing was loaded at startup and nothing was saved; the first
\* GetOrder read the store and backfilled, the second was served from
\* the cache
C18_Witness ==
    /\ boot.ret # NoErr
    /\ po.pc = "idle"
    /\ hist.calls = 2
    /\ gr.pc = "done"
    /\ gr.hit
    /\ gr.reads = 0
    /\ gr.order = Stored(store, gr.uid)

----------------------------------------------------------------------------
(* C19 *)

\* GetOrder has returned after a miss for an identifier the store does
\* not hold, the store answered every query of the call and the context
\* of the call is not done
AbsentRead ==
    /\ gr.pc = "done"
    /\ ~gr.hit
    /\ ~gr.done
    /\ ~InStore(store, gr.uid)
    /\ ~hist.down
    /\ hist.faults = MaxFaults

\* C19: a GetOrder that returns an error has not called cache.Set and
\* returns no order; for an identifier in neither the store nor the
\* cache it returns the not-found error; the cache holds no identifier
\* the store does not hold, so its size stays 0 over an empty store and
\* a later GetOrder for the identifier goes to the store again.
C19_NoSetOnError ==
    /\ gr.pc = "done" /\ gr.ret # NoErr =>
          /\ gr.sets = 0
          /\ gr.order = NoAggregate
          /\ ~gr.hit
    /\ gr.pc = "set" => gr.order # NoAggregate /\ gr.order.uid = gr.uid
    /\ AbsentRead => gr.ret = "notfound" /\ gr.reads >= 1
    /\ \A uid \in OrderUIDs : ~InStore(store, uid) => ~Live(uid)
    /\ store = EmptyStore => Size(cache, now) = 0

\* over an empty store a second GetOrder has gone to the store again and
\* returned not-found, the cache still being empty
C19_Witness ==
    /\ AbsentRead
    /\ store = EmptyStore
    /\ po.pc = "idle"
    /\ hist.calls = 2
    /\ gr.ret = "notfound"
    /\ gr.reads >= 1
    /\ Size(cache, now) = 0

----------------------------------------------------------------------------
(* C20 *)

\* C20: a store GetOrder for an identifier with no matching row makes
\* exactly one read attempt: not-found is returned without a retry.
C20_NotFoundNotRetried ==
    gr.pc = "done" /\ gr.ret = "notfound" => gr.reads = 1

----------------------------------------------------------------------------
(* C21: a saved order is read back unchanged *)

\* GetOrder has returned an order, was called after the latest ProcessOrder
\* of the same order_uid returned nil, and no GetOrder ran during that
\* ProcessOrder
ReadAfterSave ==
    /\ hist.seq = "put-get"
    /\ po.pc = "done"
    /\ po.ret = NoErr
    /\ gr.pc = "done"
    /\ gr.ret = NoErr
    /\ gr.uid = po.order.uid

\* C21: when ProcessOrder(o) has returned nil and no other call on o's
\* order_uid overlapped it, a GetOrder(o.uid) made afterwards that returns
\* an order returns o itself, header and item list, whether the cache
\* served it or the store did after the entry expired.
C21_ReadBackEqualsSaved == ReadAfterSave => gr.order = po.order

\* the entry has expired and the order, saved over an older version with
\* other items, was read back from the store
C21_Witness ==
    /\ ReadAfterSave
    /\ ~gr.hit
    /\ gr.reads >= 1
    /\ now > TTL
    /\ po.order = Aggregate("a", 2, <<2>>)
    /\ gr.order = po.order
    /\ Aggregate("a", 1, <<1, 2>>) \in hist.accepted

----------------------------------------------------------------------------
(* C22: the cache after a successful warm-up *)

\* the order_uids GetAllOrdersQuery returns a row for
Present == {u \in OrderUIDs : InStore(store, u)}

\* WarmUpCache has returned nil, no other call has been made, and no more
\* than the TTL has passed since the process started
FreshlyWarm == WarmedUp /\ boot.ret = NoErr /\ now <= TTL

\* C22: after WarmUpCache returned nil against a store holding n orders,
\* and before any TTL has elapsed, Size() is n and Get finds every one of
\* the n order_uids.
C22_WarmUpLoadsAll ==
    FreshlyWarm =>
        /\ Size(cache, now) = Cardinality(Present)
        /\ \A u \in Present : CacheGet(cache, u, now).exists

\* a warm-up against two stored orders, some time after it
C22_Witness ==
    /\ FreshlyWarm
    /\ Cardinality(Present) = 2
    /\ Size(cache, now) = 2
    /\ now = TTL

----------------------------------------------------------------------------
(* C23: a failed warm-up *)

\* WarmUpCache has returned an error and no other call has been made
WarmUpFailed == WarmedUp /\ boot.ret # NoErr

\* C23: when GetAllOrders fails, WarmUpCache returns its error and does not
\* touch the cache, and the consumer is started all the same: its callback
\* ProcessOrder can be called.
C23_WarmUpFailureNotFatal ==
    WarmUpFailed =>
        /\ boot.ret = "query"
        /\ cache = NoCache
        /\ ENABLED (\E o \in Orders : ProcessOrder(o))

\* after a failed warm-up the consumer handed an order to ProcessOrder,
\* which saved it
C23_Witness ==
    /\ boot.pc = "done"
    /\ boot.ret = "query"
    /\ po.pc = "done"
    /\ po.ret = NoErr
    /\ po.sets = 1

----------------------------------------------------------------------------
(* C24: an expired entry is hidden by Get and removed only by Cleanup *)

\* the step in which goroutine t runs the body of the method op
Runs(t, op) ==
    /\ th[t].pc = "in"
    /\ th[t].op = op
    /\ th'[t] # th[t]

\* the entries of the backing map whose TTL has passed at time t
Stale(c, t) == {u \in DOMAIN c : t > c[u].expireTime}

C24_Step ==
    \A t \in Threads :
        /\ Runs(t, "Get") /\ th[t].uid \in Stale(cache, now) =>
              /\ ~th'[t].res.exists
              /\ cache' = cache
        /\ Runs(t, "Cleanup") =>
              /\ Stale(cache, now) \cap DOMAIN cache' = {}
              /\ Size(cache', now') = Size(cache, now)

\* C24: once more than the TTL has passed since Set(o), Get(o.uid) reports
\* not-found and leaves the entry in the backing map; a Cleanup() removes
\* the entry, and Size() is the same just before and just after it.
C24_ExpiredHiddenThenRemoved == [][C24_Step]_vars

\* a Get has reported not-found for an order_uid whose expired entry is
\* still in the map
C24_Witness ==
    \E t \in Threads :
        /\ th[t].op = "Get"
        /\ th[t].pc = "done"
        /\ ~th[t].res.exists
        /\ th[t].uid \in Stale(cache, th[t].at)

----------------------------------------------------------------------------
(* C25: Set and LoadFromSlice overwrite *)

\* the cache c2 is c1 with the entry of o.uid replaced by o, expiring one
\* TTL after t, and nothing else changed
Overwritten(c1, c2, o, t) ==
    /\ DOMAIN c2 = DOMAIN c1 \cup {o.uid}
    /\ c2[o.uid] = [order |-> o, expireTime |-> t + TTL]
    /\ \A u \in DOMAIN c1 \ {o.uid} : c2[u] = c1[u]

C25_Step ==
    \A t \in Threads :
        /\ Runs(t, "Set") => Overwritten(cache, cache', th[t].arg[1], now)
        /\ Runs(t, "LoadFromSlice") /\ th[t].arg # <<>> =>
              Overwritten(cache, cache', Head(th[t].arg), now)
        /\ Runs(t, "Get") /\ th[t].uid \in DOMAIN cache \ Stale(cache, now) =>
              /\ th'[t].res.exists
              /\ th'[t].res.order = cache[th[t].uid].order

\* C25: Set(o) replaces whatever entry o.uid has, expired or not, by o with
\* expiry now + TTL and changes no other entry; each element of
\* LoadFromSlice's slice is stored the same way, so the last of several
\* elements with one order_uid stays; a Get within the TTL of the latest
\* write returns exactly the order written last.
C25_SetOverwrites == [][C25_Step]_vars

\* LoadFromSlice was given two orders with one order_uid, and the Get that
\* followed returned the second
C25_Witness ==
    /\ CallsMade = 2
    /\ \E t \in Threads : th[t].op = "LoadFromSlice" /\ th[t].pc = "done"
    /\ \E t \in Threads :
          /\ th[t].op = "Get"
          /\ th[t].pc = "done"
          /\ th[t].res.exists
          /\ th[t].res.order = Aggregate("a", 2, <<2>>)

----------------------------------------------------------------------------
(* C26: GetAll and Size see the entries that have not expired *)

\* goroutine t has run the body of op and still holds the lock, so the
\* map is as the body found it
Holding(t, op) == th[t].pc = "out" /\ th[t].op = op

\* the order_uids Get reports as found at time t
Found(t) == {u \in OrderUIDs : CacheGet(cache, u, t).exists}

Elems(q) == {q[i] : i \in DOMAIN q}

\* C26: what GetAll returns is exactly the orders of the entries that have
\* not expired, each once, and what Size returns is their number; both
\* equal the number of order_uids for which Get reports found, and an
\* expired entry still in the map is neither returned nor counted.
C26_SizeAndGetAllAgree ==
    \A t \in Threads :
        /\ Holding(t, "Size") =>
              th[t].res.size = Cardinality(Found(th[t].at))
        /\ Holding(t, "GetAll") =>
              /\ Len(th[t].res.all) = Cardinality(Found(th[t].at))
              /\ Elems(th[t].res.all) =
                    {cache[u].order : u \in Found(th[t].at)}
              /\ \A u \in Stale(cache, th[t].at) :
                    cache[u].order \notin Elems(th[t].res.all)

\* Size and GetAll ran side by side on a map of one expired and one live
\* entry
C26_Witness ==
    /\ Cardinality(DOMAIN cache) = 2
    /\ \E t \in Threads : Holding(t, "Size") /\ th[t].res.size = 1
    /\ \E t \in Threads :
          /\ Holding(t, "GetAll")
          /\ Len(th[t].res.all) = 1
          /\ Cardinality(Stale(cache, th[t].at)) = 1

----------------------------------------------------------------------------
(* C27: the effect of Cleanup *)

C27_Step ==
    \A t \in Threads :
        Runs(t, "Cleanup") =>
            /\ DOMAIN cache' = DOMAIN cache \ Stale(cache, now)
            /\ \A u \in DOMAIN cache' : cache'[u] = cache[u]
            /\ Stale(cache', now') = {}
            /\ \A u \in OrderUIDs :
                  CacheGet(cache', u, now') = CacheGet(cache, u, now)
            /\ GetAll(cache', now') = GetAll(cache, now)
            /\ Size(cache', now') = Size(cache, now)

\* C27: Cleanup deletes from the backing map every entry whose expiry has
\* passed and no other entry, so no expired entry is left, and Get, GetAll
\* and Size answer the same just before and just after it.
C27_CleanupRemovesExpiredOnly == [][C27_Step]_vars

\* after a LoadFromSlice of the order_uids a and b, Cleanup has removed the
\* expired entry of a and kept the live entry of b
C27_Witness ==
    /\ CallsMade = 2
    /\ \E t \in Threads : th[t].op = "LoadFromSlice" /\ th[t].pc = "done"
    /\ \E t \in Threads : Holding(t, "Cleanup")
    /\ DOMAIN cache = {"b"}
    /\ Size(cache, now) = 1

----------------------------------------------------------------------------
(* C28: the lock serialises the cache's methods *)

\* goroutine t is between taking and releasing the lock
Inside(t) == th[t].pc \in {"in", "out"}

\* the lock is held the way the methods inside it need: a writer alone, or
\* readers only
Exclusion ==
    /\ \A t \in Threads :
          Inside(t) =>
             IF th[t].op \in Readers
             THEN mu.writer = "none" /\ t \in mu.readers
             ELSE mu.writer = t /\ mu.readers = {}
    /\ \A t, u \in Threads :
          Inside(t) /\ Inside(u) /\ t # u =>
             th[t].op \in Readers /\ th[u].op \in Readers

C28_Step ==
    /\ Exclusion
    /\ cache' # cache =>
          \E t \in Threads :
             /\ Inside(t)
             /\ th[t].op \in Writers
             /\ \A u \in Threads \ {t} : ~Inside(u) /\ th'[u] = th[u]
    /\ \A t \in Threads :
          Runs(t, "Get") /\ th'[t].res.exists =>
             /\ th[t].uid \in DOMAIN cache
             /\ th'[t].res.order = cache[th[t].uid].order
             /\ cache[th[t].uid].order.uid = th[t].uid

\* C28: whatever the interleaving, a goroutine that writes the map (Set,
\* LoadFromSlice, Cleanup) is alone between Lock and Unlock, goroutines
\* that read it (Get, GetAll, Size) share the read lock with readers only,
\* and the map changes only in a writer's step; so the calls take effect
\* one at a time, and a Get returns the whole order of the entry it found,
\* the one before or the one after a concurrent Set, never parts of both.
C28_Linearized == [][C28_Step]_vars

\* a Set waits for the lock while a Get of the same order_uid, which has
\* found the previous entry, holds it
C28_Witness ==
    \E t, u \in Threads :
        /\ Holding(t, "Get")
        /\ th[t].res.exists
        /\ th[u].op = "Set"
        /\ th[u].pc = "lock"
        /\ th[u].uid = th[t].uid
        /\ th[u].arg[1] # th[t].res.order

----------------------------------------------------------------------------
(* C29: the number of invocations and the value returned *)

\* DoWithContext has ended, by a return or by a panic, and its context
\* was never cancelled
Uncancelled == rt.pc \in {"done", "panic"} /\ ~rt.cancelled

\* the attempt bound N of the claim
BoundN == IF rt.n <= 0 THEN 1 ELSE rt.n

\* the index of the first invocation that succeeds, or N when the first N
\* all fail
InvocationsK == IF rt.fails < BoundN THEN rt.fails + 1 ELSE BoundN

\* C29: without cancellation DoWithContext invokes the operation exactly
\* k times, k being the first successful invocation or the bound N (1 when
\* the policy says 0 or less); it returns nil after the first success and
\* the error of the N-th invocation after N failures, and it waits between
\* invocations only, never after the last one.
C29_InvocationsAndResult ==
    Uncancelled =>
        /\ rt.calls = InvocationsK
        /\ rt.ret = IF rt.fails < BoundN THEN NoErr ELSE Errs[BoundN]
        /\ rt.waits = InvocationsK - 1

----------------------------------------------------------------------------
(* C30: what a cancelled call returns *)

\* DoWithContext has returned after its context was cancelled on entry,
\* before an attempt started, or during a backoff wait
CancelledOutsideAttempt ==
    /\ rt.pc = "done"
    /\ rt.cancelled
    /\ rt.cancelledAt \in {"entry", "top", "wait"}

\* C30: when the context is cancelled during a backoff wait or before an
\* attempt starts, the first or a later one, DoWithContext returns the
\* context's error; when the context is cancelled on entry the operation
\* is never invoked.
C30_CancelReturnsCtxError ==
    CancelledOutsideAttempt =>
        /\ rt.ret = "ctx"
        /\ rt.cancelledAt = "entry" => rt.calls = 0

----------------------------------------------------------------------------
(* C31: the delay of a backoff wait *)

\* DoWithContext is in the wait that follows a failed attempt
Waiting == rt.pc = "wait"

\* InitialBackoff * BackoffFactor^a for the policy of the call, a being
\* the number of the failed attempt
Grown == Backoff([TestPolicy EXCEPT !.InitialBackoff = rt.d0], rt.attempt)

\* min(MaxBackoff, d)
Cut(d) == IF d > TestPolicy.MaxBackoff THEN TestPolicy.MaxBackoff ELSE d

\* C31 as stated: after failed attempt a the wait is
\* min(MaxBackoff, InitialBackoff * BackoffFactor^a), and with jitter a
\* random value below half of that cut delay is added to it.
C31_JitterOnCutDelay ==
    Waiting =>
        IF rt.jitter
        THEN /\ rt.j \in 0 .. (Cut(Grown) \div 2) - 1
             /\ rt.delay = Cut(Grown) + rt.j
        ELSE rt.delay = Cut(Grown)

\* C31: after failed attempt a the wait lasts
\* min(MaxBackoff, b + j) with b = InitialBackoff * BackoffFactor^a and
\* j = 0 without jitter, j a random value in [0, b/2) with jitter: the
\* jitter is drawn from the backoff before the cut and the sum is cut.
C31_DelayIsCutSum ==
    Waiting =>
        /\ rt.j \in (IF rt.jitter THEN 0 .. (Grown \div 2) - 1 ELSE {0})
        /\ rt.delay = Cut(Grown + rt.j)

\* a first wait with backoff 40 and a jitter that takes the sum over
\* MaxBackoff: the wait lasts MaxBackoff
C31_Witness ==
    /\ Waiting
    /\ rt.jitter
    /\ rt.attempt = 0
    /\ Grown < TestPolicy.MaxBackoff
    /\ Grown + rt.j > TestPolicy.MaxBackoff
    /\ rt.delay = TestPolicy.MaxBackoff

----------------------------------------------------------------------------
(* C37: the waits are bounded and, without jitter, do not shrink *)

\* a failed attempt that is followed by a wait
StartsWait == rt.pc = "call" /\ rt'.pc = "wait"

----------------------------------------------------------------------------
(* C38: the jitter of a backoff under two nanoseconds *)

\* C38: with Jitter enabled and at least two attempts, whatever the
\* InitialBackoff (0 and 1 ns included), DoWithContext with a failing
\* operation computes the jitter without a runtime failure and returns nil
\* or an error.
C38_JitterNeverPanics ==
    (rt.jitter /\ rt.max >= 2 /\ rt.fails >= 1) =>
        /\ rt.pc # "panic"
        /\ rt.pc = "done" =>
              rt.ret \in {NoErr, "ctx"} \cup {Errs[i] : i \in DOMAIN Errs}

----------------------------------------------------------------------------
(* Order.Validate called on its own *)

\* a test case changes one more field of the order
ModifyOrder ==
    /\ vd.out = "none"
    /\ ~vd.nil
    /\ vd.edits < MaxEdits
    /\ \E o \in Modified(vd.o) \ {vd.o} :
          vd' = [vd EXCEPT !.o = o, !.edits = @ + 1]
    /\ UNCHANGED <<kafkaVars, svcVars, libVars, lk, lc, mn>>

\* the test case NilOrder: var order *Order
NilOrder ==
    /\ vd = VdIdle
    /\ vd' = [vd EXCEPT !.nil = TRUE]
    /\ UNCHANGED <<kafkaVars, svcVars, libVars, lk, lc, mn>>

\* err := order.Validate(): the order is read only
CallValidate ==
    /\ vd.out = "none"
    /\ vd' = [vd EXCEPT
                 !.out = IF vd.nil THEN "error" ELSE ValidateStruct(vd.o)]
    /\ UNCHANGED <<kafkaVars, svcVars, libVars, lk, lc, mn>>

ValidateNext ==
    \/ ModifyOrder
    \/ NilOrder
    \/ CallValidate

ValidateSpec == LibInit /\ [][ValidateNext]_vars

----------------------------------------------------------------------------
(* C36: what Order.Validate accepts *)

\* not empty and not white space only
NonBlank(s) == \E i \in DOMAIN s : s[i] # " "

\* the conditions the claim lists
Listed(o) ==
    /\ Len(o.OrderUID) = 32
    /\ \A i \in DOMAIN o.OrderUID : o.OrderUID[i] = "a"
    /\ \A f \in Tags.Order : NonBlank(o[f])
    /\ \A f \in Tags.Delivery \cup {"Email"} : NonBlank(o.Delivery[f])
    /\ \A f \in Tags.Payment : NonBlank(o.Payment[f])
    /\ o.SMID # 0
    /\ \A f \in Tags.PaymentMin0 : o.Payment[f] >= 0
    /\ o.Payment.PaymentDT > 0
    /\ o.Items # <<>>
    /\ \A i \in DOMAIN o.Items :
          /\ \A f \in Tags.Item : NonBlank(o.Items[i][f])
          /\ \A f \in Tags.ItemGt0 : o.Items[i][f] # 0
          /\ \A f \in Tags.ItemMin0 : o.Items[i][f] >= 0

\* C36: Order.Validate returns ok exactly when the identifier is 32
\* alphanumeric characters, every required string of the order, its
\* delivery, its payment and its items is non-blank, the shard id is
\* non-zero, the payment amounts are >= 0 and its timestamp > 0, and the
\* item list is non-empty with non-zero charge and model ids and
\* non-negative prices; otherwise it returns an error.
C36_ValidateAcceptsExactly ==
    vd.out # "none" =>
        (vd.out = "ok" <=> ~vd.nil /\ Listed(vd.o))

----------------------------------------------------------------------------
(* The eviction goroutine and Service.Close.  A panic ends the process:
   no goroutine takes a step after it. *)

\* mutant: the ticker goes on after Stop
TickerFires_Stopped ==
    /\ lc.cl # "panic"
    /\ ~lc.tick
    /\ lc.ticks < MaxTicks
    /\ lc' = [lc EXCEPT !.tick = TRUE, !.ticks = @ + 1]
    /\ UNCHANGED <<kafkaVars, svcVars, libVars, vd, lk, mn>>

\* the running ticker puts a tick into cleanupTicker.C, which holds one
TickerFires ==
    /\ lc.cl # "panic"
    /\ lc.ticker
    /\ ~lc.tick
    /\ lc.ticks < MaxTicks
    /\ lc' = [lc EXCEPT !.tick = TRUE, !.ticks = @ + 1]
    /\ UNCHANGED <<kafkaVars, svcVars, libVars, vd, lk, mn>>

\* the select of runCleanup: a waiting tick is received, or the closed
\* stopCleanup is; with both ready either case is taken
RunCleanupSelect ==
    /\ lc.cl # "panic"
    /\ lc.rc = "select"
    /\ \/ /\ lc.tick
          /\ lc' = [lc EXCEPT !.tick = FALSE, !.rc = "cleanup"]
       \/ /\ lc.stop
          /\ lc' = [lc EXCEPT !.rc = "returned"]
    /\ UNCHANGED <<kafkaVars, svcVars, libVars, vd, lk, mn>>

\* s.cache.Cleanup() in runCleanup, then back to the select
RunCleanupCall ==
    /\ lc.cl # "panic"
    /\ lc.rc = "cleanup"
    /\ cache' = CacheCleanup(cache, now)
    /\ lc' = [lc EXCEPT !.rc = "select",
                        !.late = IF lc.closes >= 1 THEN @ + 1 ELSE @]
    /\ UNCHANGED <<kafkaVars, libVars, vd, lk, mn, store, now, boot, po, gr,
                   hist>>

\* Service.Close, statement by statement: the call, cleanupTicker.Stop()
\* (which leaves a tick that waits in the channel there or not, by the
\* version of the runtime), close(s.stopCleanup) (which panics on a closed
\* channel), s.db.Close() and the return
Close ==
    /\ lc.cl # "panic"
    /\ CASE lc.cl = "idle" ->
              /\ lc.calls < MaxCloses
              /\ lc' = [lc EXCEPT !.cl = "stop", !.calls = @ + 1]
         [] lc.cl = "stop" ->
              \E t \in {lc.tick, FALSE} :
                 lc' = [lc EXCEPT !.ticker = FALSE, !.tick = t,
                                  !.cl = "chan"]
         [] lc.cl = "chan" ->
              IF lc.stop
              THEN lc' = [lc EXCEPT !.cl = "panic"]
              ELSE lc' = [lc EXCEPT !.stop = TRUE, !.cl = "db"]
         [] lc.cl = "db" ->
              lc' = [lc EXCEPT !.db = "closed", !.closes = @ + 1,
                               !.cl = "idle"]
    /\ UNCHANGED <<kafkaVars, svcVars, libVars, vd, lk, mn>>

LifeNext ==
    \/ WarmUpCache
    \/ Tick
    \/ TickerFires
    \/ RunCleanupSelect
    \/ RunCleanupCall
    \/ Close

LifeSpec == SvcInit /\ [][LifeNext]_vars

\* the scheduler runs the eviction goroutine whenever it can take a step
FairLifeSpec ==
    LifeSpec /\ WF_vars(RunCleanupSelect) /\ WF_vars(RunCleanupCall)

----------------------------------------------------------------------------
(* C32: the eviction task after Close *)

\* a call of Close has returned
Closed == lc.closes >= 1

----------------------------------------------------------------------------
(* C39: Close called twice *)

\* C39: a second call of Service.Close on the same service returns
\* normally, without a runtime failure, and leaves the eviction task as
\* the first call left it.
C39_SecondCloseReturns ==
    lc.calls >= 2 => lc.cl # "panic"

----------------------------------------------------------------------------
(* The statistics lock Service.mu ("s") and the cache lock Cache.mu ("c")
   as the service's methods take them.  A method is the sequence of its
   lock operations and of its suspensions ("io": a query of the store, a
   backoff timer, a call of the broker, the cleanup ticker), one sequence
   for each path through it. *)

\* mutant: GetOrder updates the statistics inside cache.Set
Programs_StatsInsideSet ==
    {<<<<"s", "Lock">>, <<"s", "Unlock">>, <<"c", "RLock">>,
       <<"c", "RUnlock">>, <<"io", "store">>, <<"c", "Lock">>,
       <<"s", "Lock">>, <<"s", "Unlock">>, <<"c", "Unlock">>>>,
     <<<<"s", "RLock">>, <<"c", "RLock">>, <<"c", "RUnlock">>,
       <<"s", "RUnlock">>>>}

\* mutant: WarmUpCache queries the store inside cache.LoadFromSlice
Programs_QueryInsideLoad ==
    {<<<<"c", "Lock">>, <<"io", "store">>, <<"c", "Unlock">>>>,
     <<<<"io", "ticker">>, <<"c", "Lock">>, <<"c", "Unlock">>>>}

\* the paths through the methods: Stats is an update of the statistics
\* under Service.mu, Read a cache.Get or cache.Size, Write a cache.Set,
\* cache.LoadFromSlice or cache.Cleanup, Query one call of the store,
\* Retried a call of the store that fails, the backoff wait and the next
\* call
Programs ==
    LET Stats == <<<<"s", "Lock">>, <<"s", "Unlock">>>>
        Read == <<<<"c", "RLock">>, <<"c", "RUnlock">>>>
        Write == <<<<"c", "Lock">>, <<"c", "Unlock">>>>
        Query == <<<<"io", "store">>>>
        Retried == <<<<"io", "store">>, <<"io", "timer">>, <<"io", "store">>>>
    IN  {\* GetOrder: found in the cache; found in the store, at once or
         \* after a retry; not found or failed
         Stats \o Read \o Stats,
         Stats \o Read \o Query \o Write \o Stats,
         Stats \o Read \o Retried \o Write \o Stats,
         Stats \o Read \o Retried \o Stats,
         \* GetCacheStats: cache.Size() under the deferred RUnlock
         <<<<"s", "RLock">>>> \o Read \o <<<<"s", "RUnlock">>>>,
         \* ProcessOrder: saved at once or after a retry, or not saved
         Query \o Write,
         Retried \o Write,
         Retried,
         \* the consumer: FetchMessage, ProcessOrder, CommitMessages
         <<<<"io", "broker">>>> \o Query \o Write \o <<<<"io", "broker">>>>,
         \* WarmUpCache: GetAllOrders, LoadFromSlice, Size; or failed
         Query \o Write \o Read,
         Query,
         \* runCleanup: a tick, then Cleanup
         <<<<"io", "ticker">>>> \o Write}

\* a goroutine enters a method on one of its paths
LkCall(t) ==
    /\ lk.prog[t] = <<>>
    /\ lk.calls < MaxRuns
    /\ \E p \in Programs :
          lk' = [lk EXCEPT !.prog[t] = p, !.calls = @ + 1]
    /\ UNCHANGED <<kafkaVars, svcVars, libVars, vd, lc, mn>>

\* the next operation of the goroutine's method.  sync.RWMutex: Lock waits
\* for the writer and the readers to leave and, once called, keeps new
\* readers out; RLock waits for the writer and for the blocked writers; a
\* suspension ends
LkStep(t) ==
    /\ lk.prog[t] # <<>>
    /\ LET m == Head(lk.prog[t])[1]
           op == Head(lk.prog[t])[2]
           done == [lk EXCEPT !.prog[t] = Tail(@)]
       IN  CASE m = "io" -> lk' = done
             [] op = "Lock" ->
                  IF lk[m].writer = "none" /\ lk[m].readers = {}
                  THEN lk' = [done EXCEPT ![m].writer = t,
                                          ![m].waiting = @ \ {t}]
                  ELSE /\ t \notin lk[m].waiting
                       /\ lk' = [lk EXCEPT ![m].waiting = @ \cup {t}]
             [] op = "RLock" ->
                  /\ lk[m].writer = "none"
                  /\ lk[m].waiting = {}
                  /\ lk' = [done EXCEPT ![m].readers = @ \cup {t}]
             [] op = "Unlock" -> lk' = [done EXCEPT ![m].writer = "none"]
             [] op = "RUnlock" -> lk' = [done EXCEPT ![m].readers = @ \ {t}]
    /\ UNCHANGED <<kafkaVars, svcVars, libVars, vd, lc, mn>>

LockNext ==
    \/ \E t \in Tasks : LkCall(t)
    \/ \E t \in Tasks : LkStep(t)

LockSpec == LibInit /\ [][LockNext]_vars

----------------------------------------------------------------------------
(* C34: no suspension under the cache lock *)

\* the goroutine holds the lock, to write or to read
Holds(t, m) == lk[m].writer = t \/ t \in lk[m].readers

\* the goroutine is at an operation of the given kind
At(t, m) == lk.prog[t] # <<>> /\ Head(lk.prog[t])[1] = m

\* C34: no goroutine holds the cache lock while it is suspended in a
\* broker call, a backoff wait or a round trip to the store: every cache
\* operation of ProcessOrder, GetOrder, WarmUpCache and the eviction task
\* takes and releases the lock with no suspension in between.
C34_NoSuspensionUnderCacheLock ==
    \A t \in Tasks : At(t, "io") => ~Holds(t, "c")

\* a goroutine is in the store query of GetOrder, after its cache.Get,
\* while another one holds the cache lock
C34_Witness ==
    \E t, u \in Tasks :
        /\ At(t, "io")
        /\ Len(lk.prog[t]) = 5
        /\ lk.c.writer = u

----------------------------------------------------------------------------
(* C35: the statistics lock and the cache lock *)

\* the goroutine is blocked at a Lock or RLock of the given lock
Blocked(t, m) ==
    /\ At(t, m)
    /\ Head(lk.prog[t])[2] \in {"Lock", "RLock"}
    /\ ~ENABLED LkStep(t)

\* C35: GetCacheStats, GetOrder, ProcessOrder and the eviction task never
\* deadlock: no goroutine asks for the statistics lock while it holds the
\* cache lock, and whenever goroutines are inside methods one of them can
\* take a step.
C35_NoDeadlock ==
    /\ \A t \in Tasks : At(t, "s") /\ Holds(t, "c") =>
          Head(lk.prog[t])[2] \in {"Unlock", "RUnlock"}
    /\ (\E t \in Tasks : lk.prog[t] # <<>>) =>
          \E t \in Tasks : ENABLED LkStep(t)

\* GetCacheStats holds the statistics lock and is blocked at the cache
\* lock, which a writer holds, while a GetOrder is blocked at the
\* statistics lock
C35_Witness ==
    \E t, u, v \in Tasks :
        /\ Holds(t, "s") /\ Blocked(t, "c")
        /\ lk.c.writer = u
        /\ Blocked(v, "s")

----------------------------------------------------------------------------
(* The startup sequence of main.  log.Fatalf ends the process: pc is
   "fatal" and no goroutine takes a step after it. *)

\* mutant: a connection that cannot be made is only logged
Connect_LogOnly ==
    /\ mn.pc = "connect"
    /\ \/ mn' = [mn EXCEPT !.tries.connect = @ + 1, !.db = TRUE,
                           !.pc = "init"]
       \/ mn' = [mn EXCEPT
                    !.tries.connect = @ + 1,
                    !.pc = IF mn.tries.connect + 1 = HeavyPolicy.MaxAttempts
                           THEN "init"
                           ELSE "connect"]
    /\ UNCHANGED <<kafkaVars, svcVars, libVars, vd, lk, lc>>

\* one attempt of database.NewPostgres under retry.HeavyPolicy(): it
\* connects, or it fails and is retried, or it fails for the last time
\* and main ends in log.Fatalf
Connect ==
    /\ mn.pc = "connect"
    /\ \/ mn' = [mn EXCEPT !.tries.connect = @ + 1, !.db = TRUE,
                           !.pc = "init"]
       \/ mn' = [mn EXCEPT !.tries.connect = @ + 1]
             /\ mn.tries.connect + 1 < HeavyPolicy.MaxAttempts
       \/ mn' = [mn EXCEPT !.tries.connect = @ + 1, !.pc = "fatal",
                           !.why = "connect"]
             /\ mn.tries.connect + 1 = HeavyPolicy.MaxAttempts
    /\ UNCHANGED <<kafkaVars, svcVars, libVars, vd, lk, lc>>

\* one attempt of db.Init under retry.HeavyPolicy(), likewise
DbInit ==
    /\ mn.pc = "init"
    /\ \/ mn' = [mn EXCEPT !.tries.init = @ + 1, !.inited = TRUE,
                           !.pc = "warmup"]
       \/ mn' = [mn EXCEPT !.tries.init = @ + 1]
             /\ mn.tries.init + 1 < HeavyPolicy.MaxAttempts
       \/ mn' = [mn EXCEPT !.tries.init = @ + 1, !.pc = "fatal",
                           !.why = "init"]
             /\ mn.tries.init + 1 = HeavyPolicy.MaxAttempts
    /\ UNCHANGED <<kafkaVars, svcVars, libVars, vd, lk, lc>>

\* service.New and one attempt of svc.WarmUpCache under
\* retry.DefaultPolicy(); the last failure is only logged
MainWarmUp ==
    /\ mn.pc = "warmup"
    /\ \/ mn' = [mn EXCEPT !.tries.warmup = @ + 1, !.warm = TRUE,
                           !.pc = "consumer"]
       \/ mn' = [mn EXCEPT
                    !.tries.warmup = @ + 1,
                    !.pc = IF mn.tries.warmup + 1 = DefaultPolicy.MaxAttempts
                           THEN "consumer"
                           ELSE "warmup"]
    /\ UNCHANGED <<kafkaVars, svcVars, libVars, vd, lk, lc>>

\* go func() { kafkaConsumer.Consume(consumerCtx, svc.ProcessOrder) }()
StartConsumer ==
    /\ mn.pc = "consumer"
    /\ mn' = [mn EXCEPT !.consumer = TRUE, !.pc = "http"]
    /\ UNCHANGED <<kafkaVars, svcVars, libVars, vd, lk, lc>>

\* go func() { server.ListenAndServe() }(): the listener is up, or the
\* call fails and the goroutine ends the process with log.Fatalf
ListenAndServe ==
    /\ mn.pc = "http"
    /\ \/ mn' = [mn EXCEPT !.http = TRUE, !.pc = "signal"]
       \/ mn' = [mn EXCEPT !.pc = "fatal", !.why = "listen"]
    /\ UNCHANGED <<kafkaVars, svcVars, libVars, vd, lk, lc>>

\* the consumer goroutine fetches a message from the broker
MainFetch ==
    /\ mn.pc # "fatal"
    /\ mn.consumer
    /\ mn.fetched < MaxMsgs
    /\ mn' = [mn EXCEPT !.fetched = @ + 1]
    /\ UNCHANGED <<kafkaVars, svcVars, libVars, vd, lk, lc>>

\* the HTTP server serves a query
MainServe ==
    /\ mn.pc # "fatal"
    /\ mn.http
    /\ mn.served < MaxCalls
    /\ mn' = [mn EXCEPT !.served = @ + 1]
    /\ UNCHANGED <<kafkaVars, svcVars, libVars, vd, lk, lc>>

\* <-signalChan, server.Shutdown, cancelConsumer and the return of main
Shutdown ==
    /\ mn.pc = "signal"
    /\ mn' = [mn EXCEPT !.http = FALSE, !.consumer = FALSE, !.pc = "done"]
    /\ UNCHANGED <<kafkaVars, svcVars, libVars, vd, lk, lc>>

MainNext ==
    \/ Connect
    \/ DbInit
    \/ MainWarmUp
    \/ StartConsumer
    \/ ListenAndServe
    \/ MainFetch
    \/ MainServe
    \/ Shutdown

MainSpec == LibInit /\ [][MainNext]_vars

----------------------------------------------------------------------------
(* C33: nothing is started before the store is ready *)

\* the process has taken broker or query traffic, or is set to
Accepting ==
    mn.consumer \/ mn.http \/ mn.fetched > 0 \/ mn.served > 0

\* C33: the consumer loop and the HTTP listener are started only after the
\* store connection was made and Init returned success; when connecting
\* or Init runs out of retries the process exits without having fetched a
\* broker message or served a query.
C33_StartsAfterStoreIsReady ==
    /\ Accepting => mn.db /\ mn.inited
    /\ (mn.pc = "fatal" /\ mn.why \in {"connect", "init"}) => ~Accepting

\* Init has failed five times on a connected store: main has ended in
\* log.Fatalf and nothing was started
C33_Witness ==
    /\ mn.pc = "fatal"
    /\ mn.why = "init"
    /\ mn.db
    /\ mn.tries.init = HeavyPolicy.MaxAttempts

====
